---- MODULE Spec2Model ----
(***************************************************************************)
(* A model of Source/cmGeneratorTarget.cxx: the per-target resolution of   *)
(* sources, source classification, compatible-interface properties,        *)
(* output names, link interfaces and the link-implementation closure.      *)
(*                                                                         *)
(* Each subsystem has its own specification (SpecSources, SpecClassify, ..) *)
(* over its own group of variables; the other groups stay idle.            *)
(***************************************************************************)
EXTENDS Integers, Sequences, FiniteSets, TLC

VARIABLES
  \* ---- source resolution of one cmGeneratorTarget
  SourceEntries,          \* this->SourceEntries: the parsed source entries
  SourceFilesMap,         \* this->SourceFilesMap: upper-cased config -> files
  LinkImplementationLanguageIsContextDependent,
  DebugSourcesDone,       \* this->DebugSourcesDone
  ConfigureDoneCMP0026,   \* GlobalGenerator->GetConfigureDoneCMP0026()
  DebugTargetProperties,  \* CMAKE_DEBUG_TARGET_PROPERTIES, as a set
  implLibraries,          \* GetLinkImplementationLibraries(config)->Libraries
  srcRet,                 \* the last GetSourceFiles call and what it returned
  \* ---- source classification (TagVisitor over one GetSourceFiles result)
  clsTargetType,          \* this->Target->GetType()
  clsSources,             \* sourceFiles of IMPLEMENT_VISIT_IMPL
  clsRet,                 \* what the classification queries returned
  \* ---- compatible-interface reconciliation for one head target
  cmpProps,               \* the properties set on the target (GetPropertyKeys, GetProperty)
  LinkImplicitNullProperties,\* this->LinkImplicitNullProperties
  cmpDeps,                \* GetLinkImplementationClosure(config) with each member's properties
  errno,                  \* the C library's errno
  cmpRet,                 \* the last reconciliation and what it returned
  \* ---- output names of the targets of one generator
  outTypes,               \* GetType() of each target
  outProps,               \* the output-name properties set on each target
  outConfig,              \* the configuration names are computed for
  OutputNameMap,          \* this->OutputNameMap of each target
  outStack,               \* the GetOutputName calls in progress, outermost first
  outMessages,            \* the messages issued
  outLast,                \* how the last outermost GetOutputName call ended
  \* ---- link interfaces, link implementations and closures of the targets
  lnkTargets,             \* type, policies and link properties of each target
  lnkPointers,            \* the targets in the order of their addresses
  LinkInterfaceMap,       \* LinkInterfaceMap[CONFIG] of each target: head -> interface
  LinkInterfaceUsageRequirementsOnlyMap,\* the same for usage requirements only
  LinkImplMap,            \* LinkImplMap[CONFIG] of each target: head -> implementation
  LinkImplClosureMap,     \* LinkImplClosureMap[config] of each target
  PolicyWarnedCMP0022,    \* this->PolicyWarnedCMP0022 of each target
  lnkMessages,            \* the messages issued
  lnkCalls,               \* the number of calls made
  lnkRet,                 \* the last call and what it returned
  \* ---- link closure: the languages linked and the linker language
  lngTarget,              \* properties, compiled languages and link libraries of the target, interfaces of the others
  lngGlobal,              \* linker preferences, propagation flags, CMP0028 and the hash order of languages
  LinkClosureMap,         \* LinkClosureMap: upper-case configuration -> closure
  lngMessages,            \* the messages issued
  lngRet,                 \* the last call and what it returned
  \* ---- include directories, compile options, definitions and features
  optTarget,              \* entries, link implementation, policies and platform of the target
  optDone,                \* DebugIncludesDone, DebugCompileOptionsDone, ... by property
  optRet,                 \* the last call, the list it returned and the messages it issued
  \* ---- the compatibility check of a link line
  chkDeps,                \* the items of the link line with their COMPATIBLE_INTERFACE_ lists
  chkDisagreeing,         \* the property and kind whose values do not agree in the closure
  ErrorOccuredFlag,       \* cmSystemTools::GetErrorOccuredFlag()
  chkRet,                 \* the check made last and the messages it issued
  \* ---- library names
  namTarget,              \* type, properties and platform of the target
  namRet,                 \* the names returned by the last GetLibraryNames call
  \* ---- tracing the dependencies of a target
  trcGraph,               \* the target, its sources and what the source files depend on
  trcPhase,               \* "new", "tracing" (the tracer is constructed) or "done"
  SourceQueue,            \* cmTargetTraceDependencies::SourceQueue
  SourcesQueued,          \* cmTargetTraceDependencies::SourcesQueued
  NewSources,             \* cmTargetTraceDependencies::NewSources
  NameMap,                \* cmTargetTraceDependencies::NameMap
  SourceDepends,          \* cmGeneratorTarget::SourceDepends
  Utilities,              \* the utilities added to the target
  tracedEntries,          \* the source entries added by AddTracedSources
  trcProcessed,           \* the source files taken from the queue, in order
  trcMessages,            \* the messages issued
  \* ---- the object-filename mapping of one cmGeneratorTarget
  objTarget,              \* the target: its type, Makefile->GetConfigurations and GetSourceFiles per configuration
  Objects,                \* this->Objects: source file -> object file name
  objComputed,            \* the mappings handed to ComputeObjectFilenames, in call order
  objMessages,            \* the messages the classification queries issued
  objCalls,               \* calls made so far
  objRet,                 \* the last call and what it returned
  \* ---- the link items of one cmGeneratorTarget, names as character sequences
  itmTarget,              \* the target: its name and the settings of CMP0004 and CMP0038
  itmRet,                 \* the last call, its arguments, what it returned and the messages it issued
  \* ---- the languages of the link implementations of the target of the source model
  LinkImplLanguages,      \* LinkImplMap[CONFIG][this]: LanguagesDone and Languages, by upper-cased config
  lilRet,                 \* the last GetLinkImplementation call and the languages it returned
  \* ---- the target whose Apple packaging is asked for, and the last answer
  macTarget,              \* type, platform and the FRAMEWORK, MACOSX_BUNDLE, BUNDLE and XCTEST properties
  macRet                  \* the last call of the packaging model and its result

srcVars == <<SourceEntries, SourceFilesMap,
             LinkImplementationLanguageIsContextDependent, DebugSourcesDone,
             ConfigureDoneCMP0026, DebugTargetProperties, implLibraries,
             srcRet>>

clsVars == <<clsTargetType, clsSources, clsRet>>

cmpVars == <<cmpProps, LinkImplicitNullProperties, cmpDeps, errno, cmpRet>>

outVars == <<outTypes, outProps, outConfig, OutputNameMap, outStack,
             outMessages, outLast>>

lnkVars == <<lnkTargets, lnkPointers, LinkInterfaceMap,
             LinkInterfaceUsageRequirementsOnlyMap, LinkImplMap,
             LinkImplClosureMap, PolicyWarnedCMP0022, lnkMessages, lnkCalls,
             lnkRet>>

lngVars == <<lngTarget, lngGlobal, LinkClosureMap, lngMessages, lngRet>>

optVars == <<optTarget, optDone, optRet>>

chkVars == <<chkDeps, chkDisagreeing, ErrorOccuredFlag, chkRet>>

namVars == <<namTarget, namRet>>

trcVars == <<trcGraph, trcPhase, SourceQueue, SourcesQueued, NewSources, NameMap, SourceDepends, Utilities, tracedEntries, trcProcessed, trcMessages>>

objVars == <<objTarget, Objects, objComputed, objMessages, objCalls, objRet>>

itmVars == <<itmTarget, itmRet>>

lilVars == <<LinkImplLanguages, lilRet>>

macVars == <<macTarget, macRet>>

vars == <<srcVars, clsVars, cmpVars, outVars, lnkVars, lngVars, optVars, chkVars, namVars, trcVars, objVars, itmVars, lilVars, macVars>>

\* what the operations of one subsystem leave alone: the other subsystems
srcOthers ==
  <<clsVars, cmpVars, outVars, lnkVars, lngVars, optVars, chkVars, namVars, trcVars, objVars, itmVars, lilVars, macVars>>
clsOthers ==
  <<srcVars, cmpVars, outVars, lnkVars, lngVars, optVars, chkVars, namVars, trcVars, objVars, itmVars, lilVars, macVars>>
cmpOthers ==
  <<srcVars, clsVars, outVars, lnkVars, lngVars, optVars, chkVars, namVars, trcVars, objVars, itmVars, lilVars, macVars>>
outOthers ==
  <<srcVars, clsVars, cmpVars, lnkVars, lngVars, optVars, chkVars, namVars, trcVars, objVars, itmVars, lilVars, macVars>>
lnkOthers ==
  <<srcVars, clsVars, cmpVars, outVars, lngVars, optVars, chkVars, namVars, trcVars, objVars, itmVars, lilVars, macVars>>
lngOthers ==
  <<srcVars, clsVars, cmpVars, outVars, lnkVars, optVars, chkVars, namVars, trcVars, objVars, itmVars, lilVars, macVars>>
optOthers ==
  <<srcVars, clsVars, cmpVars, outVars, lnkVars, lngVars, chkVars, namVars, trcVars, objVars, itmVars, lilVars, macVars>>
chkOthers ==
  <<srcVars, clsVars, cmpVars, outVars, lnkVars, lngVars, optVars, namVars, trcVars, objVars, itmVars, lilVars, macVars>>
namOthers ==
  <<srcVars, clsVars, cmpVars, outVars, lnkVars, lngVars, optVars, chkVars, trcVars, objVars, itmVars, lilVars, macVars>>
trcOthers ==
  <<srcVars, clsVars, cmpVars, outVars, lnkVars, lngVars, optVars, chkVars, namVars, objVars, itmVars, lilVars, macVars>>
objOthers ==
  <<srcVars, clsVars, cmpVars, outVars, lnkVars, lngVars, optVars, chkVars, namVars, trcVars, itmVars, lilVars, macVars>>
itmOthers ==
  <<srcVars, clsVars, cmpVars, outVars, lnkVars, lngVars, optVars, chkVars, namVars, trcVars, objVars, lilVars, macVars>>
lilOthers ==
  <<srcVars, clsVars, cmpVars, outVars, lnkVars, lngVars, optVars, chkVars, namVars, trcVars, objVars, itmVars, macVars>>
macOthers ==
  <<srcVars, clsVars, cmpVars, outVars, lnkVars, lngVars, optVars, chkVars, namVars, trcVars, objVars, itmVars, lilVars>>

-----------------------------------------------------------------------------
(* Generic helpers.                                                        *)

Range(s) == {s[i] : i \in DOMAIN s}

NoDuplicates(s) == \A i, j \in DOMAIN s : i # j => s[i] # s[j]

RECURSIVE Flatten(_)
Flatten(ss) == IF ss = <<>> THEN <<>> ELSE Head(ss) \o Flatten(Tail(ss))

\* the first occurrence of every element, in order
RECURSIVE FirstOccurrences(_)
FirstOccurrences(s) ==
  IF s = <<>> THEN <<>>
  ELSE LET init == FirstOccurrences(SubSeq(s, 1, Len(s) - 1))
           last == s[Len(s)]
       IN IF last \in Range(init) THEN init ELSE Append(init, last)

-----------------------------------------------------------------------------
(* Configurations, paths and generator expressions.                        *)

Configs == {"", "Debug"}

\* cmSystemTools::UpperCase on the configuration names in use
UpperCase(config) == IF config = "Debug" THEN "DEBUG" ELSE config

\* A path as written in a source entry: dir is "" for a relative path.
Path(d, f) == [dir |-> d, file |-> f]

CurrentSourceDirectory == "/src"

\* cmSystemTools::FileIsFullPath
FileIsFullPath(p) == p.dir # ""

\* files the project cannot place on disk: GetFullPath(&e) returns ""
MissingFiles == {"gone.c"}

NoPath == Path("", "")

\* cmMakefile::GetOrCreateSource(src)->GetFullPath(&e); NoPath when the
\* source cannot be found.
GetFullPath(p) ==
  IF p.file \in MissingFiles THEN NoPath
  ELSE IF FileIsFullPath(p) THEN p
  ELSE Path(CurrentSourceDirectory, p.file)

\* A source entry: a generator expression that yields `items`, either
\* always (when = "*") or under $<CONFIG:Debug> / $<NOT:$<CONFIG:Debug>>.
\* targetName is the LinkImplItem the entry was made for ("" for none).
SrcEntry(items, when, targetName) ==
  [items |-> items, when |-> when, targetName |-> targetName]

\* cge->Evaluate(lg, config, ...) followed by ExpandListArgument
Evaluate(entry, config) ==
  CASE entry.when = "*"      -> entry.items
    [] entry.when = "Debug"  ->
         IF UpperCase(config) = "DEBUG" THEN entry.items ELSE <<>>
    [] entry.when = "!Debug" ->
         IF UpperCase(config) = "DEBUG" THEN <<>> ELSE entry.items

\* cge->GetHadContextSensitiveCondition()
GetHadContextSensitiveCondition(entry) == entry.when # "*"

\* The text of an entry split as a list, unevaluated: an entry without a
\* generator expression gives its items, any other entry gives pieces of
\* expression text.
RawItems(entry) ==
  IF entry.when = "*" THEN entry.items
  ELSE [i \in DOMAIN entry.items |->
          Path("$<" \o entry.when \o ">", entry.items[i].file)]

-----------------------------------------------------------------------------
(* processSources and the two GetSourceFiles overloads.                    *)

\* uniqueSrcs.insert(src).second guarding srcs.push_back(src): no check
InsertUniqueNoCheck(srcs, src) == Append(srcs, src)

\* uniqueSrcs.insert(src).second guarding srcs.push_back(src)
InsertUnique(srcs, src) ==
  IF src \in Range(srcs) THEN srcs ELSE Append(srcs, src)

RECURSIVE InsertAllUnique(_, _)
InsertAllUnique(srcs, items) ==
  IF items = <<>> THEN srcs
  ELSE InsertAllUnique(InsertUnique(srcs, Head(items)), Tail(items))

\* the test on an item without the target-name condition
RejectsEveryRelativePath(src, targetName) == ~FileIsFullPath(src)

\* !targetName.empty() && !cmSystemTools::FileIsFullPath(src.c_str())
RejectsRelativePath(src, targetName) ==
  targetName # "" /\ ~FileIsFullPath(src)

\* the text of the FATAL_ERROR for a rejected relative path: the inner
\* test on targetName chooses between the two messages
RelativePathError(targetName) ==
  IF targetName # ""
  THEN "FATAL_ERROR: relative path in INTERFACE_SOURCES"
  ELSE "FATAL_ERROR: Found relative path while evaluating sources"

\* The first loop over one entry's items: every item is replaced by its full
\* path; the first item that cannot be found, or that is relative in an
\* entry made for a linked target, ends processSources.
\* err: "" | "notfound" | "relative"
RECURSIVE ResolveEntrySources(_, _, _)
ResolveEntrySources(items, targetName, done) ==
  IF items = <<>> THEN [err |-> "", out |-> done]
  ELSE LET src == Head(items)
           fullPath == GetFullPath(src)
       IN IF fullPath = NoPath THEN [err |-> "notfound", out |-> done]
          ELSE IF RejectsRelativePath(src, targetName)
               THEN [err |-> "relative", out |-> done]
          ELSE ResolveEntrySources(Tail(items), targetName,
                                   Append(done, fullPath))

\* processSources(tgt, entries, srcs, uniqueSrcs, dagChecker, config,
\* debugSources).  eText says whether GetFullPath filled its error text.
\* Returns the grown srcs, contextDependent and the messages issued.
RECURSIVE processSources(_, _, _, _, _, _, _)
processSources(entries, srcs, config, debugSources, eText, contextDependent, msgs) ==
  IF entries = <<>>
  THEN [srcs |-> srcs, contextDependent |-> contextDependent, msgs |-> msgs]
  ELSE LET entry == Head(entries)
           entrySources == Evaluate(entry, config)
           ctx == contextDependent \/ GetHadContextSensitiveCondition(entry)
           res == ResolveEntrySources(entrySources, entry.targetName, <<>>)
       IN IF res.err = "notfound"
          THEN [srcs |-> srcs, contextDependent |-> ctx,
                msgs |-> IF eText THEN msgs \cup {"FATAL_ERROR: cannot find source"}
                         ELSE msgs]
          ELSE IF res.err = "relative"
          THEN [srcs |-> srcs, contextDependent |-> ctx,
                msgs |-> msgs \cup {RelativePathError(entry.targetName)}]
          ELSE LET grown == InsertAllUnique(srcs, res.out)
               IN processSources(Tail(entries), grown, config, debugSources,
                    eText, ctx,
                    IF debugSources /\ Len(grown) > Len(srcs)
                    THEN msgs \cup {"LOG: Used sources"} ELSE msgs)

\* AddInterfaceEntries(this, config, "INTERFACE_SOURCES", entries): one
\* entry $<TARGET_PROPERTY:lib,INTERFACE_SOURCES> per library that is a
\* target, in the order of the link implementation.
RECURSIVE AddInterfaceEntries(_)
AddInterfaceEntries(libs) ==
  IF libs = <<>> THEN <<>>
  ELSE LET it == Head(libs)
       IN (IF it.isTarget
           THEN <<SrcEntry(it.iface.items, it.iface.when, it.name)>>
           ELSE <<>>) \o AddInterfaceEntries(Tail(libs))

\* The body of GetSourceFiles(std::vector<std::string>&, config) once
\* configuration is done.
ResolveSourceFiles(config, eText1, eText2) ==
  LET debugSources == ~DebugSourcesDone /\ "SOURCES" \in DebugTargetProperties
      direct == processSources(SourceEntries, <<>>, config, debugSources,
                               eText1, FALSE, {})
      linkInterfaceSourcesEntries ==
        IF implLibraries.exists THEN AddInterfaceEntries(implLibraries.libs)
        ELSE <<>>
      numFilesBefore == Len(direct.srcs)
      iface == processSources(linkInterfaceSourcesEntries, direct.srcs,
                              config, debugSources, eText2, FALSE, direct.msgs)
  IN [files |-> iface.srcs,
      msgs |-> iface.msgs,
      contextIndependent |->
        ~direct.contextDependent
        /\ ~(iface.contextDependent /\ numFilesBefore < Len(iface.srcs))]

\* The configure-time branch of GetSourceFiles(std::vector<std::string>&):
\* the items of Target->GetSourceEntries() as written, every one pushed.
RECURSIVE RawSourceItems(_)
RawSourceItems(entries) ==
  IF entries = <<>> THEN <<>>
  ELSE RawItems(Head(entries)) \o RawSourceItems(Tail(entries))

\* The cmSourceFile that GetOrCreateSource finds or creates for a name: one
\* per location, a relative name being looked up in the source directory.
GetOrCreateSource(p) ==
  IF FileIsFullPath(p) THEN p ELSE Path(CurrentSourceDirectory, p.file)

\* The loop of GetSourceFiles(std::vector<cmSourceFile*>&) over srcs, with
\* its `emitted` set.
RECURSIVE EmitSourceFiles(_, _)
EmitSourceFiles(srcs, files) ==
  IF srcs = <<>> THEN files
  ELSE LET sf == GetOrCreateSource(Head(srcs))
       IN EmitSourceFiles(Tail(srcs),
            IF sf \in Range(files) THEN files ELSE Append(files, sf))

\* std::map order of the keys of SourceFilesMap
KeyOrder == <<"", "DEBUG">>

\* SourceFilesMap.begin()->second, for a map that is not empty
MapBegin(m) ==
  m[KeyOrder[CHOOSE i \in DOMAIN KeyOrder :
       /\ KeyOrder[i] \in DOMAIN m
       /\ \A j \in DOMAIN KeyOrder : KeyOrder[j] \in DOMAIN m => i <= j]]

EmptyMap == [k \in {} |-> <<>>]

MapPut(m, k, v) == [x \in DOMAIN m \cup {k} |-> IF x = k THEN v ELSE m[x]]

\* What reading begin() of an empty std::map may give.
UndefinedFiles == {<<>>, <<Path("?", "?")>>}

NoCall == [op |-> "none", config |-> "", files |-> <<>>, msgs |-> {},
           undefined |-> FALSE]

-----------------------------------------------------------------------------
(* Bounds and inputs of the source specification.                          *)

MaxSourceEntries == 2

A_rel == Path("", "a.c")
A_abs == Path("/src", "a.c")
B_abs == Path("/src", "b.c")
C_abs == Path("/src", "c.c")
D_abs == Path("/src", "d.c")
Gone  == Path("", "gone.c")
R_rel == Path("", "r.c")

\* the arguments of AddSource
AddSourceChoices ==
  { SrcEntry(<<A_rel>>, "*", ""),
    SrcEntry(<<A_abs, B_abs>>, "*", ""),
    SrcEntry(<<B_abs>>, "Debug", ""),
    SrcEntry(<<Gone>>, "*", "") }

\* the arguments of AddTracedSources
TracedChoices == { <<>>, <<C_abs, A_abs>> }

LinkLib(name, isTarget, items, when) ==
  [name |-> name, isTarget |-> isTarget,
   iface |-> [items |-> items, when |-> when]]

L1 == LinkLib("L1", TRUE, <<C_abs, A_abs>>, "*")
L2 == LinkLib("L2", TRUE, <<D_abs>>, "Debug")
L3 == LinkLib("L3", TRUE, <<R_rel>>, "*")
L4 == LinkLib("L4", TRUE, <<D_abs>>, "!Debug")
LX == LinkLib("m", FALSE, <<>>, "*")

\* the link implementations the target may have (none for an imported one)
ImplChoices ==
  { [exists |-> FALSE, libs |-> <<>>],
    [exists |-> TRUE, libs |-> <<>>],
    [exists |-> TRUE, libs |-> <<L1>>],
    [exists |-> TRUE, libs |-> <<LX, L2>>],
    [exists |-> TRUE, libs |-> <<L1, L4>>],
    [exists |-> TRUE, libs |-> <<L3, L1>>] }

-----------------------------------------------------------------------------
(* The operations on sources.                                              *)

SrcInit ==
  /\ SourceEntries = <<>>
  /\ SourceFilesMap = EmptyMap
  /\ LinkImplementationLanguageIsContextDependent = TRUE
  /\ DebugSourcesDone = FALSE
  /\ ConfigureDoneCMP0026 \in BOOLEAN
  /\ DebugTargetProperties \in {{}, {"SOURCES"}}
  /\ implLibraries \in ImplChoices
  /\ srcRet = NoCall

\* AddSource without SourceFilesMap.clear()
AddSourceKeepCache(src) ==
  /\ UNCHANGED srcOthers
  /\ Len(SourceEntries) < MaxSourceEntries
  /\ SourceEntries' = Append(SourceEntries, src)
  /\ srcRet' = NoCall
  /\ UNCHANGED <<SourceFilesMap, LinkImplementationLanguageIsContextDependent,
                 DebugSourcesDone, ConfigureDoneCMP0026,
                 DebugTargetProperties, implLibraries>>

\* AddSource that also clears DebugSourcesDone
AddSourceClearDone(src) ==
  /\ UNCHANGED srcOthers
  /\ Len(SourceEntries) < MaxSourceEntries
  /\ SourceEntries' = Append(SourceEntries, src)
  /\ SourceFilesMap' = EmptyMap
  /\ LinkImplementationLanguageIsContextDependent' = TRUE
  /\ DebugSourcesDone' = FALSE
  /\ srcRet' = NoCall
  /\ UNCHANGED <<ConfigureDoneCMP0026, DebugTargetProperties, implLibraries>>

\* cmGeneratorTarget::AddSource(src)
AddSource(src) ==
  /\ UNCHANGED srcOthers
  /\ Len(SourceEntries) < MaxSourceEntries
  /\ SourceEntries' = Append(SourceEntries, src)
  /\ SourceFilesMap' = EmptyMap
  /\ LinkImplementationLanguageIsContextDependent' = TRUE
  /\ srcRet' = NoCall
  /\ UNCHANGED <<DebugSourcesDone, ConfigureDoneCMP0026,
                 DebugTargetProperties, implLibraries>>

\* cmGeneratorTarget::AddTracedSources(srcs)
AddTracedSources(srcs) ==
  /\ UNCHANGED srcOthers
  /\ IF srcs # <<>>
     THEN /\ Len(SourceEntries) < MaxSourceEntries
          /\ SourceFilesMap' = EmptyMap
          /\ LinkImplementationLanguageIsContextDependent' = TRUE
          /\ SourceEntries' = Append(SourceEntries, SrcEntry(srcs, "*", ""))
          /\ srcRet' = NoCall
          /\ UNCHANGED <<DebugSourcesDone, ConfigureDoneCMP0026,
                         DebugTargetProperties, implLibraries>>
     ELSE UNCHANGED srcVars

\* GetSourceFiles(std::vector<std::string>& files, config), files empty
GetSourceFilesString(config) ==
  /\ UNCHANGED srcOthers
  /\ IF ~ConfigureDoneCMP0026
     THEN /\ srcRet' = [op |-> "string", config |-> config,
                        files |-> RawSourceItems(SourceEntries), msgs |-> {},
                        undefined |-> FALSE]
          /\ UNCHANGED <<SourceEntries, SourceFilesMap,
                         LinkImplementationLanguageIsContextDependent,
                         DebugSourcesDone, ConfigureDoneCMP0026,
                         DebugTargetProperties, implLibraries>>
     ELSE \E eText1, eText2 \in BOOLEAN :
            LET r == ResolveSourceFiles(config, eText1, eText2)
            IN /\ DebugSourcesDone' = TRUE
               /\ LinkImplementationLanguageIsContextDependent' =
                    IF r.contextIndependent THEN FALSE
                    ELSE LinkImplementationLanguageIsContextDependent
               /\ srcRet' = [op |-> "string", config |-> config,
                             files |-> r.files, msgs |-> r.msgs,
                             undefined |-> FALSE]
               /\ UNCHANGED <<SourceEntries, SourceFilesMap,
                              ConfigureDoneCMP0026, DebugTargetProperties,
                              implLibraries>>

\* GetSourceFiles(std::vector<cmSourceFile*>& files, config), files empty:
\* what the call does to the target
GetSourceFilesCall(config) ==
  /\ LET key == UpperCase(config)
     IN IF ~LinkImplementationLanguageIsContextDependent
        THEN /\ IF DOMAIN SourceFilesMap # {}
                THEN srcRet' = [op |-> "cached", config |-> config,
                                files |-> MapBegin(SourceFilesMap),
                                msgs |-> {}, undefined |-> FALSE]
                ELSE \E f \in UndefinedFiles :
                       srcRet' = [op |-> "cached", config |-> config,
                                  files |-> f, msgs |-> {}, undefined |-> TRUE]
             /\ UNCHANGED <<SourceEntries, SourceFilesMap,
                            LinkImplementationLanguageIsContextDependent,
                            DebugSourcesDone, ConfigureDoneCMP0026,
                            DebugTargetProperties, implLibraries>>
        ELSE IF key \in DOMAIN SourceFilesMap
        THEN /\ srcRet' = [op |-> "cached", config |-> config,
                           files |-> SourceFilesMap[key], msgs |-> {},
                           undefined |-> FALSE]
             /\ UNCHANGED <<SourceEntries, SourceFilesMap,
                            LinkImplementationLanguageIsContextDependent,
                            DebugSourcesDone, ConfigureDoneCMP0026,
                            DebugTargetProperties, implLibraries>>
        ELSE IF ~ConfigureDoneCMP0026
        THEN LET files == EmitSourceFiles(RawSourceItems(SourceEntries), <<>>)
             IN /\ SourceFilesMap' = MapPut(SourceFilesMap, key, files)
                /\ srcRet' = [op |-> "cached", config |-> config,
                              files |-> files, msgs |-> {}, undefined |-> FALSE]
                /\ UNCHANGED <<SourceEntries,
                               LinkImplementationLanguageIsContextDependent,
                               DebugSourcesDone, ConfigureDoneCMP0026,
                               DebugTargetProperties, implLibraries>>
        ELSE \E eText1, eText2 \in BOOLEAN :
               LET r == ResolveSourceFiles(config, eText1, eText2)
                   files == EmitSourceFiles(r.files, <<>>)
               IN /\ DebugSourcesDone' = TRUE
                  /\ LinkImplementationLanguageIsContextDependent' =
                       IF r.contextIndependent THEN FALSE
                       ELSE LinkImplementationLanguageIsContextDependent
                  /\ SourceFilesMap' = MapPut(SourceFilesMap, key, files)
                  /\ srcRet' = [op |-> "cached", config |-> config,
                                files |-> files, msgs |-> r.msgs,
                                undefined |-> FALSE]
                  /\ UNCHANGED <<SourceEntries, ConfigureDoneCMP0026,
                                 DebugTargetProperties, implLibraries>>

\* a call of GetSourceFiles(std::vector<cmSourceFile*>& files, config)
GetSourceFiles(config) ==
  /\ UNCHANGED srcOthers
  /\ GetSourceFilesCall(config)

SrcNext ==
  \/ \E src \in AddSourceChoices : AddSource(src)
  \/ \E srcs \in TracedChoices : AddTracedSources(srcs)
  \/ \E config \in Configs : GetSourceFilesString(config)
  \/ \E config \in Configs : GetSourceFiles(config)

SrcIdle ==
  /\ SourceEntries = <<>>
  /\ SourceFilesMap = EmptyMap
  /\ LinkImplementationLanguageIsContextDependent = TRUE
  /\ DebugSourcesDone = FALSE
  /\ ConfigureDoneCMP0026 = TRUE
  /\ DebugTargetProperties = {}
  /\ implLibraries = [exists |-> TRUE, libs |-> <<>>]
  /\ srcRet = NoCall


-----------------------------------------------------------------------------
(* Claims about source resolution.                                         *)

\* the values of the target's own entries for a configuration, in
\* declaration order
OwnSourceValues(config) ==
  Flatten([i \in DOMAIN SourceEntries |-> Evaluate(SourceEntries[i], config)])

\* the INTERFACE_SOURCES values of the directly linked targets, in the order
\* of the link implementation
InterfaceSourceValues(config) ==
  IF ~implLibraries.exists THEN <<>>
  ELSE Flatten([i \in DOMAIN implLibraries.libs |->
                  IF implLibraries.libs[i].isTarget
                  THEN Evaluate(implLibraries.libs[i].iface, config)
                  ELSE <<>>])

\* the location every value names
Locations(values) == [i \in DOMAIN values |-> GetOrCreateSource(values[i])]

\* first-occurrence order of own values, then interface values
ExpectedSources(config) ==
  FirstOccurrences(Locations(OwnSourceValues(config)
                             \o InterfaceSourceValues(config)))

\* every value can be found, and no INTERFACE_SOURCES value is relative
AllSourcesResolve(config) ==
  /\ \A i \in DOMAIN OwnSourceValues(config) :
       OwnSourceValues(config)[i].file \notin MissingFiles
  /\ \A i \in DOMAIN InterfaceSourceValues(config) :
       /\ InterfaceSourceValues(config)[i].file \notin MissingFiles
       /\ FileIsFullPath(InterfaceSourceValues(config)[i])

NextCallAfterAddition ==
  /\ SourceEntries # <<>>
  /\ srcRet = NoCall
  /\ srcRet'.op \in {"cached", "string"}

\* the sources of the entry added last, as source files
AddedSources ==
  {GetOrCreateSource(src) : src \in Range(SourceEntries[Len(SourceEntries)].items)}

\* the source files of a returned list
ReturnedSources(files) == {GetOrCreateSource(src) : src \in Range(files)}

\* what evaluating the source entries as they are gives
Reevaluated(config) ==
  IF ConfigureDoneCMP0026
  THEN ResolveSourceFiles(config, FALSE, FALSE).files
  ELSE RawSourceItems(SourceEntries)

\* the call returned the evaluation of the entries as they are now
IsReevaluation ==
  /\ ~srcRet'.undefined
  /\ ReturnedSources(srcRet'.files) = ReturnedSources(Reevaluated(srcRet'.config))
  /\ srcRet'.op = "cached"
       => srcRet'.files = EmitSourceFiles(Reevaluated(srcRet'.config), <<>>)

\* C14 as stated: the first GetSourceFiles call after AddSource or
\* AddTracedSources re-evaluates the source entries and its result contains
\* the added sources
C14_AsStated ==
  [][NextCallAfterAddition
       => IsReevaluation /\ AddedSources \subseteq ReturnedSources(srcRet'.files)]_vars

\* every source that the own entries yield for the configuration is found
OwnSourcesFound(config) ==
  \A src \in Range(OwnSourceValues(config)) : GetFullPath(src) # NoPath

\* the added entry yields its sources for the configuration: always once
\* configuration is done unless a condition excludes them, and as written,
\* without a generator expression, before
AddedSelected(config) ==
  IF ConfigureDoneCMP0026
  THEN /\ Evaluate(SourceEntries[Len(SourceEntries)], config) # <<>>
       /\ OwnSourcesFound(config)
  ELSE SourceEntries[Len(SourceEntries)].when = "*"

\* C14: the first GetSourceFiles call after an addition returns the
\* evaluation of the entries as they are, never a list cached before; the
\* result contains the added sources when the added entry yields them for
\* the configuration and no own source is missing, and it never contains an
\* added source that cannot be found
C14_Reevaluates ==
  [][NextCallAfterAddition
       => /\ IsReevaluation
          /\ AddedSelected(srcRet'.config)
               => AddedSources \subseteq ReturnedSources(srcRet'.files)
          /\ ConfigureDoneCMP0026
               => \A src \in Range(Evaluate(SourceEntries[Len(SourceEntries)],
                                             srcRet'.config)) :
                    GetFullPath(src) = NoPath
                      => GetOrCreateSource(src)
                           \notin ReturnedSources(srcRet'.files)]_vars

\* a list was cached, a source was added and the call that followed returned
\* it with the source added: the cache holds the new list only
C14_Witness ==
  /\ srcRet.op = "cached"
  /\ Len(SourceEntries) = 2
  /\ DOMAIN SourceFilesMap = {UpperCase(srcRet.config)}
  /\ SourceFilesMap[UpperCase(srcRet.config)] = srcRet.files
  /\ AddedSources \subseteq Range(srcRet.files)
  /\ AddedSources # {}
  /\ Range(srcRet.files) # AddedSources

-----------------------------------------------------------------------------
(* Source classification: TagVisitor and the classification queries.       *)

\* the tags of the classification queries
Tags == {"ObjectSources", "CustomCommands", "ExtraSources", "HeaderSources",
         "ExternalObjects", "IDLSources", "Resx", "ModuleDefinitionFile",
         "AppManifest", "Manifests", "Certificates", "Xaml"}

\* A cmSourceFile as the visitor reads it: GetCustomCommand(),
\* HEADER_FILE_ONLY, EXTERNAL_OBJECT, GetLanguage(), GetExtension(), and
\* whether its full path matches CM_HEADER_REGEX.
SourceFile(name, cc, hfo, eo, lang, ext, hdr) ==
  [name |-> name, customCommand |-> cc, headerFileOnly |-> hfo,
   externalObject |-> eo, language |-> lang, ext |-> ext, headerPath |-> hdr]

\* cmSystemTools::LowerCase on the extensions in use
LowerCase(ext) ==
  CASE ext = "DEF" -> "def"
    [] ext = "Xaml" -> "xaml"
    [] OTHER -> ext

\* A visitor: its Data (the sources accepted, and for resx and xaml the
\* expected companion files) and its BadObjLibFiles.
NewVisitor == [Data |-> <<>>, Expected |-> {}, BadObjLibFiles |-> <<>>]

\* DoAccept<same>::Do(this->Data, sf) with the true specialization for
\* every tag
DoAcceptAlways(same, Tag, v, sf) == [v EXCEPT !.Data = Append(@, sf)]

\* DoAccept<same>::Do(this->Data, sf)
DoAccept(same, Tag, v, sf) ==
  IF ~same THEN v
  ELSE [v EXCEPT
          !.Data = Append(@, sf),
          !.Expected =
            CASE Tag = "Resx" -> @ \cup {[base |-> sf.name, ext |-> "h"]}
              [] Tag = "Xaml" ->
                   @ \cup {[base |-> sf.name, ext |-> sf.ext \o ".h"],
                           [base |-> sf.name, ext |-> sf.ext \o ".cpp"]}
              [] OTHER -> @]

\* a visitor that collects no offender
PushNoBadObjLib(targetType, v, sf) == v

\* this->BadObjLibFiles.push_back(sf) under if(this->IsObjLib)
PushBadObjLib(targetType, v, sf) ==
  IF targetType = "OBJECT_LIBRARY"
  THEN [v EXCEPT !.BadObjLibFiles = Append(@, sf)]
  ELSE v

\* Accept with the HEADER_FILE_ONLY test no longer under the else of the
\* custom-command and utility tests
AcceptHeaderOnlyNotElse(Tag, targetType, v, sf) ==
  LET w == IF sf.customCommand
           THEN DoAccept(Tag = "CustomCommands", Tag, v, sf)
           ELSE IF targetType = "UTILITY"
           THEN DoAccept(Tag = "ExtraSources", Tag, v, sf)
           ELSE v
  IN IF sf.headerFileOnly
     THEN DoAccept(Tag = "HeaderSources", Tag, w, sf)
     ELSE IF sf.customCommand \/ targetType = "UTILITY" THEN w
     ELSE IF sf.language # ""
     THEN DoAccept(Tag = "ObjectSources", Tag, w, sf)
     ELSE DoAccept(Tag = "ExtraSources", Tag, w, sf)

\* TagVisitor<Tag>::Accept(sf)
Accept(Tag, targetType, v, sf) ==
  LET ext == LowerCase(sf.ext)
  IN IF sf.customCommand
     THEN DoAccept(Tag = "CustomCommands", Tag, v, sf)
     ELSE IF targetType = "UTILITY"
     THEN DoAccept(Tag = "ExtraSources", Tag, v, sf)
     ELSE IF sf.headerFileOnly
     THEN DoAccept(Tag = "HeaderSources", Tag, v, sf)
     ELSE IF sf.externalObject
     THEN PushBadObjLib(targetType,
                        DoAccept(Tag = "ExternalObjects", Tag, v, sf), sf)
     ELSE IF sf.language # ""
     THEN DoAccept(Tag = "ObjectSources", Tag, v, sf)
     ELSE IF ext = "def"
     THEN PushBadObjLib(targetType,
                        DoAccept(Tag = "ModuleDefinitionFile", Tag, v, sf), sf)
     ELSE IF ext = "idl"
     THEN PushBadObjLib(targetType,
                        DoAccept(Tag = "IDLSources", Tag, v, sf), sf)
     ELSE IF ext = "resx"
     THEN DoAccept(Tag = "Resx", Tag, v, sf)
     ELSE IF ext = "appxmanifest"
     THEN DoAccept(Tag = "AppManifest", Tag, v, sf)
     ELSE IF ext = "manifest"
     THEN DoAccept(Tag = "Manifests", Tag, v, sf)
     ELSE IF ext = "pfx"
     THEN DoAccept(Tag = "Certificates", Tag, v, sf)
     ELSE IF ext = "xaml"
     THEN DoAccept(Tag = "Xaml", Tag, v, sf)
     ELSE IF sf.headerPath
     THEN DoAccept(Tag = "HeaderSources", Tag, v, sf)
     \* GlobalGenerator->IgnoreFile(ext) or not: an extra source either way
     ELSE DoAccept(Tag = "ExtraSources", Tag, v, sf)

\* the loop of IMPLEMENT_VISIT_IMPL over sourceFiles
RECURSIVE VisitAll(_, _, _, _)
VisitAll(Tag, targetType, v, sourceFiles) ==
  IF sourceFiles = <<>> THEN v
  ELSE VisitAll(Tag, targetType, Accept(Tag, targetType, v, Head(sourceFiles)),
                Tail(sourceFiles))

\* a report with one message for every file
reportEachBadObjLib(badObjLib) ==
  [i \in DOMAIN badObjLib |->
     [type |-> "FATAL_ERROR", files |-> <<badObjLib[i]>>]]

\* reportBadObjLib, called by ~TagVisitor: the messages it issues
reportBadObjLib(badObjLib) ==
  IF badObjLib # <<>>
  THEN <<[type |-> "FATAL_ERROR", files |-> badObjLib]>>
  ELSE <<>>

\* IMPLEMENT_VISIT_IMPL(Tag, ...): the data the query hands back and the
\* messages issued when the visitor is destroyed
IMPLEMENT_VISIT_IMPL(Tag, targetType, sourceFiles) ==
  LET visitor == VisitAll(Tag, targetType, NewVisitor, sourceFiles)
  IN [data |-> visitor.Data, expected |-> visitor.Expected,
      messages |-> reportBadObjLib(visitor.BadObjLibFiles)]

\* cmGeneratorTarget::GetModuleDefinitionFile: the first def file, if any
GetModuleDefinitionFile(targetType, sourceFiles) ==
  LET data == IMPLEMENT_VISIT_IMPL("ModuleDefinitionFile", targetType,
                                   sourceFiles).data
  IN IF data # <<>> THEN <<data[1]>> ELSE <<>>

-----------------------------------------------------------------------------
(* Bounds and inputs of the classification specification.                  *)

MaxClsSources == 2

TargetTypes == {"EXECUTABLE", "UTILITY", "OBJECT_LIBRARY"}

Extensions == {"def", "DEF", "idl", "resx", "appxmanifest", "manifest",
               "pfx", "xaml", "h", "txt"}

\* every combination of the attributes the visitor reads
AllSourceFiles ==
  { SourceFile("f0", cc, hfo, eo, lang, ext, hdr) :
      cc \in BOOLEAN, hfo \in BOOLEAN, eo \in BOOLEAN, lang \in {"", "C"},
      ext \in Extensions, hdr \in BOOLEAN }

\* further sources of a target, one or two per category
MoreSourceFiles ==
  { SourceFile("main", FALSE, FALSE, FALSE, "C", "c", FALSE),
    SourceFile("gen", TRUE, TRUE, FALSE, "C", "c", FALSE),
    SourceFile("only", FALSE, TRUE, FALSE, "C", "c", FALSE),
    SourceFile("obj", FALSE, FALSE, TRUE, "", "o", FALSE),
    SourceFile("exports", FALSE, FALSE, FALSE, "", "def", FALSE),
    SourceFile("iface", FALSE, FALSE, FALSE, "", "idl", FALSE),
    SourceFile("form", FALSE, FALSE, FALSE, "", "resx", FALSE),
    SourceFile("Package", FALSE, FALSE, FALSE, "", "appxmanifest", FALSE),
    SourceFile("app", FALSE, FALSE, FALSE, "", "manifest", FALSE),
    SourceFile("key", FALSE, FALSE, FALSE, "", "pfx", FALSE),
    SourceFile("page", FALSE, FALSE, FALSE, "", "Xaml", FALSE),
    SourceFile("api", FALSE, FALSE, FALSE, "", "h", TRUE),
    SourceFile("notes", FALSE, FALSE, FALSE, "", "txt", FALSE) }

NoClassification ==
  [done |-> FALSE,
   by |-> [t \in Tags |-> [data |-> <<>>, expected |-> {}, messages |-> <<>>]]]

ClsInit ==
  /\ clsTargetType \in TargetTypes
  /\ clsSources \in {<<>>} \cup {<<sf>> : sf \in AllSourceFiles}
  /\ clsRet = NoClassification

\* one more source in the list GetSourceFiles hands to the visitors
ClsAddSource(sf) ==
  /\ UNCHANGED clsOthers
  /\ Len(clsSources) < MaxClsSources
  /\ \A i \in DOMAIN clsSources : clsSources[i].name # sf.name
  /\ clsSources' = Append(clsSources, sf)
  /\ clsRet' = NoClassification
  /\ UNCHANGED clsTargetType

\* every classification query, asked of the same source list
ClassifyAll ==
  /\ UNCHANGED clsOthers
  /\ clsRet' = [done |-> TRUE,
                by |-> [t \in Tags |->
                          IMPLEMENT_VISIT_IMPL(t, clsTargetType, clsSources)]]
  /\ UNCHANGED <<clsTargetType, clsSources>>

ClsNext ==
  \/ \E sf \in MoreSourceFiles : ClsAddSource(sf)
  \/ ClassifyAll

ClsIdle ==
  /\ clsTargetType = "EXECUTABLE"
  /\ clsSources = <<>>
  /\ clsRet = NoClassification

-----------------------------------------------------------------------------
(* Claims about source classification.                                     *)

\* the sources a query handed back, as a set
Category(t) == Range(clsRet.by[t].data)

\* the categories the partition law names: every tag but the app manifest
NamedTags == Tags \ {"AppManifest"}

\* C2 as stated: the eleven named category lists are pairwise disjoint and
\* their union is the resolved source list.
C2_AsStated ==
  clsRet.done =>
    /\ \A t, u \in NamedTags : t # u => Category(t) \cap Category(u) = {}
    /\ UNION {Category(t) : t \in NamedTags} = Range(clsSources)

\* C2 amended: the category lists of all twelve tags (the eleven named ones
\* and the app manifests), taken from the same resolved source list, are
\* pairwise disjoint and their union is exactly that list.
C2_Partition ==
  clsRet.done =>
    /\ \A t, u \in Tags : t # u => Category(t) \cap Category(u) = {}
    /\ UNION {Category(t) : t \in Tags} = Range(clsSources)

\* C2 witness: two sources of a target fall into two categories, one of
\* them the app manifests.
C2_Witness ==
  /\ clsRet.done
  /\ Len(clsSources) = 2
  /\ Category("AppManifest") # {}
  /\ \E t \in NamedTags : Category(t) # {}

\* the rules of the classification in their order, as the claim lists them
RuleCategory(sf, targetType) ==
  LET rules ==
        << <<sf.customCommand, "CustomCommands">>,
           <<targetType = "UTILITY", "ExtraSources">>,
           <<sf.headerFileOnly, "HeaderSources">>,
           <<sf.externalObject, "ExternalObjects">>,
           <<sf.language # "", "ObjectSources">>,
           <<LowerCase(sf.ext) = "def", "ModuleDefinitionFile">>,
           <<LowerCase(sf.ext) = "idl", "IDLSources">>,
           <<LowerCase(sf.ext) = "resx", "Resx">>,
           <<LowerCase(sf.ext) = "appxmanifest", "AppManifest">>,
           <<LowerCase(sf.ext) = "manifest", "Manifests">>,
           <<LowerCase(sf.ext) = "pfx", "Certificates">>,
           <<LowerCase(sf.ext) = "xaml", "Xaml">>,
           <<sf.headerPath, "HeaderSources">>,
           <<TRUE, "ExtraSources">> >>
      first == CHOOSE i \in DOMAIN rules :
                 /\ rules[i][1]
                 /\ \A j \in DOMAIN rules : rules[j][1] => i <= j
  IN rules[first][2]

\* C3: every source is in exactly one category, the one of the first rule
\* that matches it.
C3_FirstMatchingRule ==
  clsRet.done =>
    \A i \in DOMAIN clsSources : \A t \in Tags :
      (clsSources[i] \in Category(t))
        <=> (t = RuleCategory(clsSources[i], clsTargetType))

\* C3 witness: a source of an object library that has a custom command and
\* is also HEADER_FILE_ONLY and EXTERNAL_OBJECT has been classified as a
\* custom-command source.
C3_Witness ==
  /\ clsRet.done
  /\ clsTargetType = "OBJECT_LIBRARY"
  /\ \E i \in DOMAIN clsSources :
        /\ clsSources[i].customCommand
        /\ clsSources[i].headerFileOnly
        /\ clsSources[i].externalObject
        /\ clsSources[i] \in Category("CustomCommands")

-----------------------------------------------------------------------------
(* Compatible-interface reconciliation: checkInterfacePropertyCompatibility *)
(* and the consistentProperty functions it uses.                           *)

\* a null const char*; no property value equals it
Null == "(null)"

\* the width of long: strtol saturates at LONG_MAX
LONG_MAX == 2147483647

\* errno values
ERANGE == 34

\* the values a property is set to in the model
HugeNumber == "99999999999999999999"
PropertyValues == {"", "ON", "OFF", "1", "5", "9", "0x10", "7up"}

\* the characters of a property value
Chars(s) ==
  CASE s = "" -> <<>>
    [] s = "ON" -> <<"O", "N">>
    [] s = "OFF" -> <<"O", "F", "F">>
    [] s = "1" -> <<"1">>
    [] s = "5" -> <<"5">>
    [] s = "9" -> <<"9">>
    [] s = "0x10" -> <<"0", "x", "1", "0">>
    [] s = "7up" -> <<"7", "u", "p">>
    [] s = HugeNumber -> [i \in 1..20 |-> "9"]

\* the value of a character as a digit; 99 for a character that is none
DigitValue(c) ==
  CASE c = "0" -> 0 [] c = "1" -> 1 [] c = "2" -> 2 [] c = "3" -> 3
    [] c = "4" -> 4 [] c = "5" -> 5 [] c = "6" -> 6 [] c = "7" -> 7
    [] c = "8" -> 8 [] c = "9" -> 9
    [] c \in {"a", "A"} -> 10 [] c \in {"b", "B"} -> 11
    [] c \in {"c", "C"} -> 12 [] c \in {"d", "D"} -> 13
    [] c \in {"e", "E"} -> 14 [] c \in {"f", "F"} -> 15
    [] OTHER -> 99

\* one round of the digit loop of strtol at character i with digit value d,
\* after the rounds that gave prev: the loop has ended where prev.end stayed
\* behind, it ends at a character that is no digit of the base, and the
\* value saturates
AddDigit(d, i, base, prev) ==
  IF prev.end < i \/ d >= base
  THEN prev
  ELSE LET over == prev.overflow \/ prev.value > (LONG_MAX - d) \div base
       IN [end |-> i + 1,
           value |-> IF over THEN LONG_MAX ELSE prev.value * base + d,
           overflow |-> over]

\* the digit loop of strtol over the characters start..i
RECURSIVE ParseDigits(_, _, _, _)
ParseDigits(cs, start, i, base) ==
  IF i < start
  THEN [end |-> start, value |-> 0, overflow |-> FALSE]
  ELSE CHOOSE r \in {AddDigit(DigitValue(cs[i]), i, base, prev) :
                       prev \in {ParseDigits(cs, start, i - 1, base)}} : TRUE

\* what strtol hands back once the digit loop gave r
Converted(cs, start, r, errnoBefore) ==
  [num |-> r.value, pEnd |-> IF r.end = start THEN 1 ELSE r.end,
   atEnd |-> r.end = Len(cs) + 1,
   errno |-> IF r.overflow THEN ERANGE ELSE errnoBefore]

\* strtol with base 0 on the characters cs: a 0x prefix before a hexadecimal
\* digit selects base 16, another leading 0 base 8
ConvertChars(cs, errnoBefore) ==
  LET hex == /\ Len(cs) >= 3 /\ cs[1] = "0" /\ cs[2] \in {"x", "X"}
             /\ cs[3] \in {"0", "1", "2", "3", "4", "5", "6", "7", "8", "9",
                           "a", "b", "c", "d", "e", "f",
                           "A", "B", "C", "D", "E", "F"}
      base == IF hex THEN 16
              ELSE IF Len(cs) >= 1 /\ cs[1] = "0" THEN 8 ELSE 10
      start == IF hex THEN 3 ELSE 1
  IN Converted(cs, start, ParseDigits(cs, start, Len(cs), base), errnoBefore)

\* strtol(s, &pEnd, 0) for the values of the model, which carry neither
\* leading white space nor a sign: pEnd is the index of the first character
\* not converted (1: nothing converted, pEnd == s), errno the value errno
\* has afterwards (strtol sets it on overflow and never clears it)
strtol(s, errnoBefore) == ConvertChars(Chars(s), errnoBefore)

\* cmSystemTools::IsOn
IsOn(val) == val \in {"ON", "1", "YES", "TRUE", "Y"}

CompatibleTypes == {"BoolType", "StringType", "NumberMaxType", "NumberMinType"}

\* cmTarget::GetProperty on a property map: Null when the key is not set
GetProperty(props, key) == props[key]

\* cmTarget::GetPropertyKeys
GetPropertyKeys(props) == {k \in DOMAIN props : props[k] # Null}

\* getTypedProperty<bool> and getTypedProperty<const char*>
getTypedProperty(t, props, prop) ==
  IF t = "BoolType" THEN IsOn(GetProperty(props, prop))
  ELSE GetProperty(props, prop)

\* an implied value that is the value ON
impliedValueOn(t) == IF t = "BoolType" THEN TRUE ELSE "ON"

\* impliedValue<bool> and impliedValue<const char*>
impliedValue(t) == IF t = "BoolType" THEN FALSE ELSE ""

\* consistentStringProperty that finds every pair consistent
consistentStringPropertyAlways(lhs, rhs) == [first |-> TRUE, second |-> lhs]

consistentStringProperty(lhs, rhs) ==
  LET b == (lhs = rhs)
  IN [first |-> b, second |-> IF b THEN lhs ELSE Null]

\* consistentNumberProperty after both conversions: l is strtol of lhs, r
\* strtol of rhs
NumberPropertyResult(l, r, lhs, rhs, t) ==
  IF l.pEnd = 1 \/ ~l.atEnd \/ l.errno = ERANGE
  THEN [first |-> FALSE, second |-> Null, errno |-> l.errno]
  ELSE IF r.pEnd = 1 \/ ~r.atEnd \/ r.errno = ERANGE
  THEN [first |-> FALSE, second |-> Null, errno |-> r.errno]
  ELSE IF t = "NumberMaxType"
  THEN [first |-> TRUE,
        second |-> IF (IF l.num >= r.num THEN l.num ELSE r.num) = l.num
                   THEN lhs ELSE rhs,
        errno |-> r.errno]
  ELSE [first |-> TRUE,
        second |-> IF (IF l.num <= r.num THEN l.num ELSE r.num) = l.num
                   THEN lhs ELSE rhs,
        errno |-> r.errno]

\* consistentNumberProperty after the conversion l of lhs
NumberPropertyAfter(l, lhs, rhs, t) ==
  NumberPropertyResult(l, strtol(rhs, l.errno), lhs, rhs, t)

consistentNumberProperty(lhs, rhs, t, errnoBefore) ==
  NumberPropertyAfter(strtol(lhs, errnoBefore), lhs, rhs, t)

\* consistentProperty<bool> that finds every pair consistent
consistentPropertyBoolAlways(lhs, rhs) == [first |-> TRUE, second |-> lhs]

\* consistentProperty<bool>
consistentPropertyBool(lhs, rhs) == [first |-> lhs = rhs, second |-> lhs]

\* consistentProperty<const char*>
consistentPropertyString(lhs, rhs, t, errnoBefore) ==
  IF lhs = Null /\ rhs = Null
  THEN [first |-> TRUE, second |-> lhs, errno |-> errnoBefore]
  ELSE IF lhs = Null
  THEN [first |-> TRUE, second |-> rhs, errno |-> errnoBefore]
  ELSE IF rhs = Null
  THEN [first |-> TRUE, second |-> lhs, errno |-> errnoBefore]
  ELSE IF t = "StringType"
  THEN [first |-> consistentStringProperty(lhs, rhs).first,
        second |-> consistentStringProperty(lhs, rhs).second,
        errno |-> errnoBefore]
  ELSE consistentNumberProperty(lhs, rhs, t, errnoBefore)

\* consistentProperty, for either PropertyType
consistentProperty(lhs, rhs, t, errnoBefore) ==
  IF t = "BoolType"
  THEN [first |-> consistentPropertyBool(lhs, rhs).first,
        second |-> consistentPropertyBool(lhs, rhs).second,
        errno |-> errnoBefore]
  ELSE consistentPropertyString(lhs, rhs, t, errnoBefore)

InterfaceProperty(p) ==
  CASE p = "P" -> "INTERFACE_P" [] p = "Q" -> "INTERFACE_Q"

\* the end of a branch of the loop that compares: an error and break, or
\* the consistent value and continue
CheckConsistent(consistent, st, theTarget, message) ==
  IF ~consistent.first
  THEN [st EXCEPT !.error = message, !.dep = theTarget.name,
                  !.errno = consistent.errno]
  ELSE [st EXCEPT !.propContent = consistent.second,
                  !.errno = consistent.errno]

\* one pass through the body of the loop of checkInterfacePropertyCompatibility,
\* for closure member theTarget; st is [propContent, propInitialized, errno,
\* error, dep], and a non-empty error means the loop was left by break
CompatibilityStep(theTarget, p, t, explicitlySet, impliedByUse, st) ==
  LET ifaceIsSet == InterfaceProperty(p) \in GetPropertyKeys(theTarget.props)
      ifacePropContent ==
        getTypedProperty(t, theTarget.props, InterfaceProperty(p))
      implied == [st EXCEPT !.propContent = impliedValue(t)]
  IN IF explicitlySet
     THEN IF ifaceIsSet
          THEN CheckConsistent(
                 consistentProperty(st.propContent, ifacePropContent, t,
                                    st.errno),
                 st, theTarget, "does not match")
          ELSE st
     ELSE IF impliedByUse
     THEN IF ifaceIsSet
          THEN CheckConsistent(
                 consistentProperty(implied.propContent, ifacePropContent, t,
                                    st.errno),
                 implied, theTarget, "is implied")
          ELSE implied
     ELSE IF ifaceIsSet
     THEN IF st.propInitialized
          THEN CheckConsistent(
                 consistentProperty(st.propContent, ifacePropContent, t,
                                    st.errno),
                 st, theTarget, "does not agree")
          ELSE [st EXCEPT !.propContent = ifacePropContent,
                          !.propInitialized = TRUE]
     ELSE st

\* the loop of checkInterfacePropertyCompatibility over deps, from member li
\* on
RECURSIVE CompatibilityLoop(_, _, _, _, _, _, _)
CompatibilityLoop(deps, li, p, t, explicitlySet, impliedByUse, st) ==
  IF li > Len(deps) \/ st.error # "" THEN st
  ELSE CompatibilityLoop(deps, li + 1, p, t, explicitlySet, impliedByUse,
         CompatibilityStep(deps[li], p, t, explicitlySet, impliedByUse, st))

\* checkInterfacePropertyCompatibility<PropertyType>(tgt, p, config, .., t)
checkInterfacePropertyCompatibility(props, implicitNull, deps, p, t, errnoBefore) ==
  LET propContent == getTypedProperty(t, props, p)
      explicitlySet == p \in GetPropertyKeys(props)
      impliedByUse == p \in implicitNull
      st == [propContent |-> propContent, propInitialized |-> explicitlySet,
             errno |-> errnoBefore, error |-> "", dep |-> ""]
  IN IF deps = <<>> THEN st
     ELSE CompatibilityLoop(deps, 1, p, t, explicitlySet, impliedByUse, st)

MaxDeps == 2

\* the names of the closure members, by position
DepName(i) == CASE i = 1 -> "B" [] i = 2 -> "C" [] i = 3 -> "D" [] OTHER -> "E"

\* the properties a closure member may carry
DepChoices ==
  [INTERFACE_P : PropertyValues \cup {Null}, INTERFACE_Q : {Null, HugeNumber}]

\* the values P may have on the target itself
OwnValues == {"ON", "OFF", "5", "9"}

NoReconciliation ==
  [op |-> "none", p |-> "", t |-> "", value |-> Null, error |-> "", dep |-> ""]

\* P, of any of the four kinds, explicitly set, implied by use (read while the link libraries were
\* computed, ComputeLinkImplementationLibraries records only null ones) or
\* neither; Q, a NUMBER_MAX property, not set
CmpInit ==
  /\ cmpProps \in [P : OwnValues \cup {Null}, Q : {Null}]
  /\ LinkImplicitNullProperties \in
       {s \in SUBSET {"P"} : \A k \in s : cmpProps[k] = Null}
  /\ cmpDeps = <<>>
  /\ errno = 0
  /\ cmpRet = NoReconciliation

\* one more target in the link-implementation closure; the closure is
\* complete before the first reconciliation
CmpAddDep(props) ==
  /\ Len(cmpDeps) < MaxDeps
  /\ cmpRet = NoReconciliation
  /\ cmpDeps' = Append(cmpDeps, [name |-> DepName(Len(cmpDeps) + 1),
                                 props |-> props])
  /\ UNCHANGED <<cmpProps, LinkImplicitNullProperties, errno, cmpRet>>
  /\ UNCHANGED cmpOthers

\* GetLinkInterfaceDependent{Bool,String,NumberMin,NumberMax}Property(p, config)
GetLinkInterfaceDependentProperty(p, t) ==
  LET r == checkInterfacePropertyCompatibility(
             cmpProps, LinkImplicitNullProperties, cmpDeps, p, t, errno)
  IN /\ errno' = r.errno
     /\ cmpRet' = [op |-> "check", p |-> p, t |-> t, value |-> r.propContent,
                   error |-> r.error, dep |-> r.dep]
     /\ UNCHANGED <<cmpProps, LinkImplicitNullProperties, cmpDeps>>
     /\ UNCHANGED cmpOthers

CmpNext ==
  \/ \E props \in DepChoices : CmpAddDep(props)
  \/ \E t \in CompatibleTypes : GetLinkInterfaceDependentProperty("P", t)
  \/ GetLinkInterfaceDependentProperty("Q", "NumberMaxType")

CmpIdle ==
  /\ cmpProps = [P |-> Null, Q |-> Null]
  /\ LinkImplicitNullProperties = {}
  /\ cmpDeps = <<>>
  /\ errno = 0
  /\ cmpRet = NoReconciliation

-----------------------------------------------------------------------------
(* Claims about compatible-interface reconciliation.                       *)

\* the closure members that set INTERFACE_<p>, by position
Setters(p) ==
  {i \in DOMAIN cmpDeps : cmpDeps[i].props[InterfaceProperty(p)] # Null}

\* a property value as a property of type t reads it: a boolean property
\* by its truth, another one literally
ValueAs(t, v) == IF t = "BoolType" THEN v \in {"ON", "1"} ELSE v

\* the value closure member i gives INTERFACE_<p>
SetValue(i, p, t) == ValueAs(t, cmpDeps[i].props[InterfaceProperty(p)])

\* the least position of a non-empty set of positions
First(S) == CHOOSE i \in S : \A j \in S : i <= j

\* C4: a BOOL or STRING property neither explicitly set nor implied by use
\* takes the value of the first closure member that sets it; the first later
\* member with another value gets the 'does not agree' error, and without
\* such a member there is no error and the common value is returned.
C4_AdoptFirstThenAgree ==
  LET p == cmpRet.p
      t == cmpRet.t
      differing == {j \in Setters(p) :
                      SetValue(j, p, t) # SetValue(First(Setters(p)), p, t)}
  IN (/\ cmpRet.op = "check"
      /\ t \in {"BoolType", "StringType"}
      /\ cmpProps[p] = Null
      /\ p \notin LinkImplicitNullProperties
      /\ Setters(p) # {})
     => IF differing # {}
        THEN /\ cmpRet.error = "does not agree"
             /\ cmpRet.dep = cmpDeps[First(differing)].name
        ELSE /\ cmpRet.error = ""
             /\ cmpRet.value = SetValue(First(Setters(p)), p, t)

\* C4 witness: B sets INTERFACE_P to ON and C sets it to OFF, P is not set
\* and not implied on the target, and the boolean reconciliation reported
\* that C does not agree.
C4_Witness ==
  /\ cmpRet.op = "check" /\ cmpRet.t = "BoolType" /\ cmpRet.p = "P"
  /\ cmpProps["P"] = Null /\ "P" \notin LinkImplicitNullProperties
  /\ Len(cmpDeps) = 2
  /\ cmpDeps[1].props["INTERFACE_P"] = "ON"
  /\ cmpDeps[2].props["INTERFACE_P"] = "OFF"
  /\ cmpRet.error = "does not agree" /\ cmpRet.dep = "C"

\* the property values that are numbers, and the numbers they are
NumberValues == {"1", "5", "9", "0x10"}
NumberOf(v) ==
  CASE v = "1" -> 1 [] v = "5" -> 5 [] v = "9" -> 9 [] v = "0x10" -> 16

\* C5: a NUMBER_MAX (NUMBER_MIN) property that is not set on the target and
\* was not read while its link libraries were computed, with every setting
\* closure member giving a number: no error, and the largest (smallest) of
\* the numbers is returned.
C5_LargestOrSmallest ==
  LET p == cmpRet.p
      t == cmpRet.t
      given == {cmpDeps[i].props[InterfaceProperty(p)] : i \in Setters(p)}
  IN (/\ cmpRet.op = "check"
      /\ t \in {"NumberMaxType", "NumberMinType"}
      /\ cmpProps[p] = Null
      /\ p \notin LinkImplicitNullProperties
      /\ Setters(p) # {}
      /\ given \subseteq NumberValues)
     => /\ cmpRet.error = ""
        /\ cmpRet.value \in given
        /\ \A v \in given :
             IF t = "NumberMaxType"
             THEN NumberOf(v) <= NumberOf(cmpRet.value)
             ELSE NumberOf(v) >= NumberOf(cmpRet.value)

\* C6: a BOOL or STRING property explicitly set on the target: the first
\* closure member whose INTERFACE value differs from the target's gets the
\* 'does not match' error naming it; without such a member there is no
\* error and the target's own value is returned.
C6_ExplicitValueRules ==
  LET p == cmpRet.p
      t == cmpRet.t
      own == ValueAs(t, cmpProps[p])
      differing == {j \in Setters(p) : SetValue(j, p, t) # own}
  IN (/\ cmpRet.op = "check"
      /\ t \in {"BoolType", "StringType"}
      /\ cmpProps[p] # Null)
     => IF differing # {}
        THEN /\ cmpRet.error = "does not match"
             /\ cmpRet.dep = cmpDeps[First(differing)].name
        ELSE /\ cmpRet.error = ""
             /\ cmpRet.value = own

\* C6 witness: P is set to 5 on the target, B sets INTERFACE_P to 5 and C
\* sets it to 9, and the string reconciliation reported that the target
\* does not match C.
C6_Witness ==
  /\ cmpRet.op = "check" /\ cmpRet.t = "StringType" /\ cmpRet.p = "P"
  /\ cmpProps["P"] = "5"
  /\ Len(cmpDeps) = 2
  /\ cmpDeps[1].props["INTERFACE_P"] = "5"
  /\ cmpDeps[2].props["INTERFACE_P"] = "9"
  /\ cmpRet.error = "does not match" /\ cmpRet.dep = "C"

-----------------------------------------------------------------------------
(* Output names: cmGeneratorTarget::GetOutputName and the evaluation of    *)
(* the output-name expression, which may ask for output names again.       *)

OutTargets == {"A", "B"}

\* a generator expression is a sequence of parts: literal text, an
\* expression that evaluates to nothing such as $<0:x>, or a reference to
\* the file name of a target, which asks that target for its output name
LitPart(text) == [kind |-> "lit", text |-> text, implib |-> FALSE]
NothingPart == [kind |-> "nothing", text |-> "", implib |-> FALSE]
RefPart(target, implib) == [kind |-> "ref", text |-> target, implib |-> implib]

\* a property that is not set
NullExpr == <<[kind |-> "null", text |-> "", implib |-> FALSE]>>

\* a name is a sequence of pieces of text, the empty string the empty one
EmptyName == <<>>

\* the file name of a target around its output name
FullName(name) == <<"lib">> \o name

\* cmGeneratorTarget::GetOutputTargetType(implib), on a DLL platform
GetOutputTargetType(type, implib) ==
  CASE type = "SHARED_LIBRARY" -> IF implib THEN "ARCHIVE" ELSE "RUNTIME"
    [] type = "STATIC_LIBRARY" -> "ARCHIVE"
    [] type = "MODULE_LIBRARY" -> IF implib THEN "ARCHIVE" ELSE "LIBRARY"
    [] type = "EXECUTABLE" -> IF implib THEN "ARCHIVE" ELSE "RUNTIME"
    [] OTHER -> ""

\* the property names GetOutputName consults, in order (an empty type or
\* configuration leaves its names out)
OutputNameProps(type, config, implib) ==
  LET t == GetOutputTargetType(type, implib)
      configUpper == UpperCase(config)
  IN (IF t # "" /\ configUpper # ""
      THEN <<t \o "_OUTPUT_NAME_" \o configUpper>> ELSE <<>>)
     \o (IF t # "" THEN <<t \o "_OUTPUT_NAME">> ELSE <<>>)
     \o (IF configUpper # ""
         THEN <<"OUTPUT_NAME_" \o configUpper, configUpper \o "_OUTPUT_NAME">>
         ELSE <<>>)
     \o <<"OUTPUT_NAME">>

\* the first of the properties that is set, the target's name when none is
\* set or the one found is the empty string
RECURSIVE FirstSetProperty(_, _, _)
FirstSetProperty(props, names, i) ==
  IF i > Len(names) THEN <<>>
  ELSE IF names[i] \in DOMAIN props /\ props[names[i]] # NullExpr
  THEN props[names[i]]
  ELSE FirstSetProperty(props, names, i + 1)

OutName(target, type, props, config, implib) ==
  LET outName ==
        FirstSetProperty(props, OutputNameProps(type, config, implib), 1)
  IN IF outName = <<>> THEN <<LitPart(target)>> ELSE outName

\* the branch GetOutputName takes for a key that finds every entry filled
\* (never the recursion branch)
LookupIgnoringSentinel(map, key) ==
  IF key \notin DOMAIN map THEN "compute" ELSE "cached"

\* the branch GetOutputName takes for a key: no entry, an empty entry, or
\* a filled one
Lookup(map, key) ==
  IF key \notin DOMAIN map THEN "compute"
  ELSE IF map[key] = EmptyName THEN "recursive"
  ELSE "cached"

\* the map with the entry of key set to name
WithEntry(map, key, name) ==
  [k \in DOMAIN map \cup {key} |-> IF k = key THEN name ELSE map[k]]

\* the frame of a call that computes: the parsed expression still to be
\* evaluated and what has been evaluated of it
NewFrame(target, key) ==
  [target |-> target, key |-> key,
   parts |-> OutName(target, outTypes[target], outProps[target],
                     key[1], key[2]),
   acc |-> EmptyName]

\* the targets whose calls are in progress, outermost first
Backtrace == [i \in DOMAIN outStack |-> outStack[i].target]

\* the message of the recursion branch
DependsOnItself(target) ==
  [text |-> "OUTPUT_NAME depends on itself", target |-> target,
   backtrace |-> Backtrace]

\* the frame on top with its first part evaluated to name
Consumed(frame, name) ==
  [frame EXCEPT !.parts = Tail(@), !.acc = @ \o name]

Top == outStack[Len(outStack)]

ReplaceTop(frame) == [outStack EXCEPT ![Len(outStack)] = frame]

NoOutputNameCall == [kind |-> "none", target |-> "", key |-> <<>>,
                     value |-> EmptyName]

\* the property maps of the model
OutPropsOfA ==
  {[OUTPUT_NAME |-> e, ARCHIVE_OUTPUT_NAME |-> a] :
     e \in {NullExpr, <<>>, <<LitPart("x")>>, <<NothingPart>>,
            <<RefPart("A", FALSE)>>, <<RefPart("B", FALSE)>>,
            <<LitPart("x"), RefPart("B", TRUE)>>},
     a \in {NullExpr, <<RefPart("A", FALSE)>>}}

OutPropsOfB ==
  {[OUTPUT_NAME |-> e] :
     e \in {NullExpr, <<LitPart("y")>>, <<RefPart("A", FALSE)>>,
            <<RefPart("A", TRUE), RefPart("B", FALSE)>>}}

OutInit ==
  /\ outTypes \in [OutTargets -> {"SHARED_LIBRARY", "UTILITY"}]
  /\ outProps \in {[t \in OutTargets |-> IF t = "A" THEN a ELSE b] :
                     a \in OutPropsOfA, b \in OutPropsOfB}
  /\ outConfig \in {"", "Debug"}
  /\ OutputNameMap = [t \in OutTargets |-> <<>>]
  /\ outStack = <<>>
  /\ outMessages = {}
  /\ outLast = NoOutputNameCall

\* GetOutputName(config, implib) called from outside any evaluation
OutCall(target, implib) ==
  LET key == <<outConfig, implib>>
      branch == Lookup(OutputNameMap[target], key)
  IN /\ outStack = <<>>
     /\ CASE branch = "compute" ->
               /\ OutputNameMap' =
                    [OutputNameMap EXCEPT
                       ![target] = WithEntry(@, key, EmptyName)]
               /\ outStack' = <<NewFrame(target, key)>>
               /\ outLast' = NoOutputNameCall
               /\ UNCHANGED outMessages
          [] branch = "recursive" ->
               /\ outMessages' = outMessages \cup {DependsOnItself(target)}
               /\ outLast' = [kind |-> "recursive", target |-> target,
                              key |-> key, value |-> EmptyName]
               /\ UNCHANGED <<OutputNameMap, outStack>>
          [] branch = "cached" ->
               /\ outLast' = [kind |-> "cached", target |-> target,
                              key |-> key,
                              value |-> OutputNameMap[target][key]]
               /\ UNCHANGED <<OutputNameMap, outStack, outMessages>>
     /\ UNCHANGED <<outTypes, outProps, outConfig>>
     /\ UNCHANGED outOthers

\* cge->Evaluate reaches a part that asks for no output name
OutEvaluatePart ==
  /\ outStack # <<>>
  /\ Top.parts # <<>>
  /\ Head(Top.parts).kind \in {"lit", "nothing"}
  /\ outStack' = ReplaceTop(Consumed(Top,
                   IF Head(Top.parts).kind = "lit"
                   THEN <<Head(Top.parts).text>> ELSE EmptyName))
  /\ UNCHANGED <<outTypes, outProps, outConfig, OutputNameMap, outMessages,
                 outLast>>
  /\ UNCHANGED outOthers

\* cge->Evaluate reaches a reference to a target's file name: GetOutputName
\* of that target is called with the configuration of the evaluation
OutNestedCall ==
  /\ outStack # <<>>
  /\ Top.parts # <<>>
  /\ Head(Top.parts).kind = "ref"
  /\ LET target == Head(Top.parts).text
         key == <<Top.key[1], Head(Top.parts).implib>>
         branch == Lookup(OutputNameMap[target], key)
     IN CASE branch = "compute" ->
               /\ OutputNameMap' =
                    [OutputNameMap EXCEPT
                       ![target] = WithEntry(@, key, EmptyName)]
               /\ outStack' = Append(outStack, NewFrame(target, key))
               /\ UNCHANGED outMessages
          [] branch = "recursive" ->
               /\ outMessages' = outMessages \cup {DependsOnItself(target)}
               /\ outStack' = ReplaceTop(Consumed(Top, FullName(EmptyName)))
               /\ UNCHANGED OutputNameMap
          [] branch = "cached" ->
               /\ outStack' = ReplaceTop(Consumed(Top,
                                FullName(OutputNameMap[target][key])))
               /\ UNCHANGED <<OutputNameMap, outMessages>>
  /\ UNCHANGED <<outTypes, outProps, outConfig, outLast>>
  /\ UNCHANGED outOthers

\* the evaluation is complete: i->second = ..., return i->second
OutReturn ==
  /\ outStack # <<>>
  /\ Top.parts = <<>>
  /\ OutputNameMap' =
       [OutputNameMap EXCEPT ![Top.target] = WithEntry(@, Top.key, Top.acc)]
  /\ IF Len(outStack) = 1
     THEN /\ outStack' = <<>>
          /\ outLast' = [kind |-> "computed", target |-> Top.target,
                         key |-> Top.key, value |-> Top.acc]
     ELSE /\ outStack' =
               [SubSeq(outStack, 1, Len(outStack) - 1) EXCEPT
                  ![Len(outStack) - 1] = Consumed(@, FullName(Top.acc))]
          /\ UNCHANGED outLast
  /\ UNCHANGED <<outTypes, outProps, outConfig, outMessages>>
  /\ UNCHANGED outOthers

OutNext ==
  \/ \E target \in OutTargets, implib \in BOOLEAN : OutCall(target, implib)
  \/ OutEvaluatePart
  \/ OutNestedCall
  \/ OutReturn

OutIdle ==
  /\ outTypes = [t \in OutTargets |-> "UTILITY"]
  /\ outProps = [t \in OutTargets |-> [OUTPUT_NAME |-> NullExpr]]
  /\ outConfig = ""
  /\ OutputNameMap = [t \in OutTargets |-> <<>>]
  /\ outStack = <<>>
  /\ outMessages = {}
  /\ outLast = NoOutputNameCall

-----------------------------------------------------------------------------
(* Claims about output names.                                              *)

\* the evaluation on top is about to ask for the output name of a target
\* and key whose computation is in progress
OutReentering ==
  /\ outStack # <<>>
  /\ Top.parts # <<>>
  /\ Head(Top.parts).kind = "ref"
  /\ \E i \in DOMAIN outStack :
       /\ outStack[i].target = Head(Top.parts).text
       /\ outStack[i].key = <<Top.key[1], Head(Top.parts).implib>>

\* C7: a call of GetOutputName for a target and key whose computation is in
\* progress, directly or through other targets, issues 'OUTPUT_NAME depends
\* on itself' and returns at once without evaluating the expression again:
\* no computation starts, the map is unchanged and the caller goes on; no
\* target and key is ever computed twice at once, and every outermost call
\* comes to an end.
C7_RecursionIsCutOff ==
  /\ [][OutReentering =>
          /\ DependsOnItself(Head(Top.parts).text) \in outMessages'
          /\ Len(outStack') = Len(outStack)
          /\ outStack'[Len(outStack)].parts = Tail(Top.parts)
          /\ OutputNameMap' = OutputNameMap]_vars
  /\ [](\A i, j \in DOMAIN outStack :
          (/\ outStack[i].target = outStack[j].target
           /\ outStack[i].key = outStack[j].key) => i = j)
  /\ (outStack # <<>>) ~> (outStack = <<>>)

\* C7 witness: A's output name asks for B's, B's asked for A's again with
\* the key being computed and got the message, and the outermost call has
\* returned.
C7_Witness ==
  /\ outStack = <<>>
  /\ outLast.kind = "computed" /\ outLast.target = "A"
  /\ \E m \in outMessages : m.target = "A" /\ m.backtrace = <<"A", "B">>

-----------------------------------------------------------------------------
(* Link interfaces, link implementations and link-implementation closures.
   The library under study may be imported, the other targets are not; the
   configuration is the empty one, so every per-configuration map is looked
   up under the same key and the property suffix is _NOCONFIG.  CMP0038 is OLD, where a target naming
   itself in its link libraries is skipped without a message. *)

LnkTargets == {"A", "B", "K", "L"}

\* the null cmGeneratorTarget pointer
NoTarget == "(none)"

\* the link properties: null, or a list of names under a condition.  forHead
\* names the head target an expression holds for (NoTarget for a condition
\* that does not read the head); linkOnly wraps the value in $<LINK_ONLY:>.
NullLibs == [null |-> TRUE, forHead |-> NoTarget, linkOnly |-> FALSE,
             libs |-> <<>>]

PlainLibs(libs) == [null |-> FALSE, forHead |-> NoTarget, linkOnly |-> FALSE,
                    libs |-> libs]

HeadLibs(head, libs) == [null |-> FALSE, forHead |-> head, linkOnly |-> FALSE,
                         libs |-> libs]

LinkOnlyLibs(libs) == [null |-> FALSE, forHead |-> NoTarget, linkOnly |-> TRUE,
                       libs |-> libs]

\* cge->Evaluate(..., headTarget, ...) with
\* dagChecker.SetTransitivePropertiesOnly() when usage_requirements_only
EvaluateLibs(expr, head, usage_requirements_only) ==
  IF expr.forHead # NoTarget /\ expr.forHead # head THEN <<>>
  ELSE IF expr.linkOnly /\ usage_requirements_only THEN <<>>
  ELSE expr.libs

\* cge->GetHadHeadSensitiveCondition()
GetHadHeadSensitiveCondition(expr) == expr.forHead # NoTarget

GetType(t) == lnkTargets[t].type

GetPolicyStatusCMP0022(t) == lnkTargets[t].CMP0022

IsExecutableWithExports(t) ==
  GetType(t) = "EXECUTABLE" /\ lnkTargets[t].ENABLE_EXPORTS

\* a static library's language runtime libraries are needed by its users
LinkLanguagePropagatesToDependents(t) == GetType(t) = "STATIC_LIBRARY"

\* FindTargetToLink: the target a name refers to, none for a name that is
\* no target and for an executable without exports
FindTargetToLink(name) ==
  IF name \notin LnkTargets THEN NoTarget
  ELSE IF GetType(name) = "EXECUTABLE" /\ ~IsExecutableWithExports(name)
  THEN NoTarget
  ELSE name

cmLinkItem(name) == [name |-> name, Target |-> FindTargetToLink(name)]

\* LookupLinkItems: an item per name, skipping the target itself and ""
RECURSIVE LookupLinkItems(_, _, _)
LookupLinkItems(t, names, i) ==
  IF i > Len(names) THEN <<>>
  ELSE IF names[i] = t \/ names[i] = "" THEN LookupLinkItems(t, names, i + 1)
  ELSE <<cmLinkItem(names[i])>> \o LookupLinkItems(t, names, i + 1)

\* ExpandLinkItems: the items of a property value for a head
ExpandLinkItems(t, value, head, usage_requirements_only) ==
  LookupLinkItems(t, EvaluateLibs(value, head, usage_requirements_only), 1)

\* cmOptionalLinkInterface()
NewLinkInterface ==
  [LibrariesDone |-> FALSE, AllDone |-> FALSE, Exists |-> FALSE,
   HadHeadSensitiveCondition |-> FALSE, ExplicitLibraries |-> FALSE,
   Libraries |-> <<>>, SharedDeps |-> <<>>,
   ImplementationIsInterface |-> FALSE]

\* cmOptionalLinkImplementation()
NewLinkImplementation ==
  [LibrariesDone |-> FALSE, LanguagesDone |-> FALSE,
   HadHeadSensitiveCondition |-> FALSE, Libraries |-> <<>>]

\* cmLinkImplementationClosure of a fresh map entry
NewClosure == [Done |-> FALSE, targets |-> <<>>]

\* the position of a target in the order of the addresses
PointerIndex(t) == CHOOSE i \in 1..Len(lnkPointers) : lnkPointers[i] = t

\* hm.begin()->first of a map keyed by the head's address
Begin(hm) ==
  CHOOSE h \in DOMAIN hm :
    \A g \in DOMAIN hm : PointerIndex(h) <= PointerIndex(g)

\* hm[head]: the entry of a head, a fresh one if there is none
EntryOf(hm, head, fresh) == IF head \in DOMAIN hm THEN hm[head] ELSE fresh

\* lookups without the shortcut
NoEntryServesAll(hm) == FALSE

\* the shortcut of the three lookups: the map is not empty and its first
\* entry had no head-sensitive condition
FirstEntryServesAll(hm) ==
  DOMAIN hm # {} /\ ~hm[Begin(hm)].HadHeadSensitiveCondition

\* the caches and flags the functions below read and write
LinkState ==
  [LinkInterfaceMap |-> LinkInterfaceMap,
   LinkInterfaceUsageRequirementsOnlyMap |->
     LinkInterfaceUsageRequirementsOnlyMap,
   LinkImplMap |-> LinkImplMap,
   LinkImplClosureMap |-> LinkImplClosureMap,
   PolicyWarnedCMP0022 |-> PolicyWarnedCMP0022,
   messages |-> lnkMessages]

\* the items of one evaluated entry of LINK_LIBRARIES: a name that is the
\* target itself (CMP0038 OLD: no message) or empty is skipped
RECURSIVE LinkImplItems(_, _, _)
LinkImplItems(t, llibs, i) ==
  IF i > Len(llibs) THEN <<>>
  ELSE IF llibs[i] = t \/ llibs[i] = "" THEN LinkImplItems(t, llibs, i + 1)
  ELSE <<cmLinkItem(llibs[i])>> \o LinkImplItems(t, llibs, i + 1)

\* ComputeLinkImplementationLibraries: the entries of LINK_LIBRARIES
\* evaluated for the head, one after the other
RECURSIVE ComputeLinkImplementationLibraries(_, _, _, _)
ComputeLinkImplementationLibraries(t, impl, head, i) ==
  IF i > Len(lnkTargets[t].LINK_LIBRARIES) THEN impl
  ELSE ComputeLinkImplementationLibraries(t,
         [impl EXCEPT
            !.HadHeadSensitiveCondition =
               @ \/ GetHadHeadSensitiveCondition(
                      lnkTargets[t].LINK_LIBRARIES[i]),
            !.Libraries =
               @ \o LinkImplItems(t,
                      EvaluateLibs(lnkTargets[t].LINK_LIBRARIES[i], head,
                                   FALSE), 1)],
         head, i + 1)

\* the entry with its libraries computed, if they were not
ImplementationLibrariesDone(t, head, impl) ==
  IF impl.LibrariesDone THEN impl
  ELSE ComputeLinkImplementationLibraries(
         t, [impl EXCEPT !.LibrariesDone = TRUE], head, 1)

\* the entry stored under the head, and returned
ReturnImplementation(st, t, head, impl) ==
  [st |-> [st EXCEPT !.LinkImplMap[t] = WithEntry(@, head, impl)],
   ret |-> impl, entry |-> head]

\* GetLinkImplementationLibrariesInternal(config, head)
GetLinkImplementationLibrariesInternal(st, t, head) ==
  IF FirstEntryServesAll(st.LinkImplMap[t])
  THEN [st |-> st, ret |-> st.LinkImplMap[t][Begin(st.LinkImplMap[t])],
        entry |-> Begin(st.LinkImplMap[t])]
  ELSE ReturnImplementation(st, t, head,
         ImplementationLibrariesDone(t, head,
           EntryOf(st.LinkImplMap[t], head, NewLinkImplementation)))

\* GetLinkImplementationLibraries(config)
GetLinkImplementationLibraries(st, t) ==
  GetLinkImplementationLibrariesInternal(st, t, t)

\* GetLinkImplementation(config): the entry of the target itself, with no
\* shortcut
GetLinkImplementation(st, t) ==
  ReturnImplementation(st, t, t,
    [ImplementationLibrariesDone(t, t,
       EntryOf(st.LinkImplMap[t], t, NewLinkImplementation))
     EXCEPT !.LanguagesDone = TRUE])

\* ComputeLinkInterfaceLibraries: the property that holds the explicit
\* interface libraries ("" when no property is consulted)
linkIfaceProp(t) ==
  IF GetPolicyStatusCMP0022(t) \notin {"OLD", "WARN"}
  THEN "INTERFACE_LINK_LIBRARIES"
  ELSE IF GetType(t) = "SHARED_LIBRARY" \/ IsExecutableWithExports(t)
  THEN IF ~lnkTargets[t].props["LINK_INTERFACE_LIBRARIES_NOCONFIG"].null
       THEN "LINK_INTERFACE_LIBRARIES_NOCONFIG"
       ELSE "LINK_INTERFACE_LIBRARIES"
  ELSE ""

explicitLibraries(t) ==
  IF linkIfaceProp(t) = "" THEN NullLibs
  ELSE lnkTargets[t].props[linkIfaceProp(t)]

\* IssueMessage(cmake::AUTHOR_WARNING, ...) with PolicyWarnedCMP0022 = true
WarnCMP0022(st, t, text) ==
  [st EXCEPT !.PolicyWarnedCMP0022[t] = TRUE,
             !.messages = Append(@, [target |-> t, text |-> text])]

\* the warning for an explicit old-style property that differs from
\* INTERFACE_LINK_LIBRARIES
WarnExplicitDiffers(st, t) ==
  IF /\ ~explicitLibraries(t).null
     /\ GetPolicyStatusCMP0022(t) = "WARN"
     /\ ~st.PolicyWarnedCMP0022[t]
     /\ ~lnkTargets[t].props["INTERFACE_LINK_LIBRARIES"].null
     /\ lnkTargets[t].props["INTERFACE_LINK_LIBRARIES"] # explicitLibraries(t)
  THEN WarnCMP0022(st, t, "differs from " \o linkIfaceProp(t))
  ELSE st

\* the warning for a link implementation used as the interface although
\* INTERFACE_LINK_LIBRARIES says otherwise
WarnImplementationDiffers(st, t, libraries, head, usage_requirements_only) ==
  IF /\ GetPolicyStatusCMP0022(t) = "WARN"
     /\ ~st.PolicyWarnedCMP0022[t]
     /\ ~usage_requirements_only
     /\ libraries #
          (IF lnkTargets[t].props["INTERFACE_LINK_LIBRARIES"].null THEN <<>>
           ELSE ExpandLinkItems(t,
                  lnkTargets[t].props["INTERFACE_LINK_LIBRARIES"], head,
                  usage_requirements_only))
  THEN WarnCMP0022(st, t, "ignoring INTERFACE_LINK_LIBRARIES")
  ELSE st

\* the interface defaulting to the link implementation r of the head
InterfaceFromImplementation(t, iface, head, usage_requirements_only, r) ==
  [st |-> WarnImplementationDiffers(r.st, t,
            iface.Libraries \o r.ret.Libraries, head,
            usage_requirements_only),
   iface |-> [iface EXCEPT !.Libraries = @ \o r.ret.Libraries]]

\* ComputeLinkInterfaceLibraries after the first warning
InterfaceLibraries(st, t, iface, head, usage_requirements_only) ==
  IF explicitLibraries(t).null
     /\ GetType(t) \in {"EXECUTABLE", "MODULE_LIBRARY"}
  THEN [st |-> st, iface |-> iface]
  ELSE IF ~explicitLibraries(t).null
  THEN [st |-> st,
        iface |-> [iface EXCEPT
           !.Exists = TRUE,
           !.ExplicitLibraries = TRUE,
           !.Libraries = @ \o ExpandLinkItems(t, explicitLibraries(t), head,
                                              usage_requirements_only),
           !.HadHeadSensitiveCondition =
              GetHadHeadSensitiveCondition(explicitLibraries(t))]]
  ELSE IF GetPolicyStatusCMP0022(t) \in {"WARN", "OLD"}
  THEN InterfaceFromImplementation(t, [iface EXCEPT !.Exists = TRUE], head,
         usage_requirements_only,
         GetLinkImplementationLibrariesInternal(st, t, head))
  ELSE [st |-> st, iface |-> [iface EXCEPT !.Exists = TRUE]]

ComputeLinkInterfaceLibraries(st, t, iface, head, usage_requirements_only) ==
  InterfaceLibraries(WarnExplicitDiffers(st, t), t, iface, head,
                     usage_requirements_only)

\* ComputeLinkInterface: the implementation libraries that are shared
\* libraries and not in the interface
RECURSIVE SharedDepsOf(_, _, _)
SharedDepsOf(libs, i, emitted) ==
  IF i > Len(libs) THEN <<>>
  ELSE IF libs[i].name \in emitted THEN SharedDepsOf(libs, i + 1, emitted)
  ELSE (IF libs[i].Target # NoTarget
           /\ GetType(libs[i].Target) = "SHARED_LIBRARY"
        THEN <<libs[i]>> ELSE <<>>)
       \o SharedDepsOf(libs, i + 1, emitted \cup {libs[i].name})

ItemNames(libs) == {libs[i].name : i \in 1..Len(libs)}

\* the first part of ComputeLinkInterface, r a link implementation looked up
WithSharedDeps(iface, r) ==
  [st |-> r.st,
   iface |-> [iface EXCEPT
      !.SharedDeps = @ \o SharedDepsOf(r.ret.Libraries, 1,
                                        ItemNames(iface.Libraries))]]

WithImplementationIsInterface(iface, r) ==
  [st |-> r.st, iface |-> [iface EXCEPT !.ImplementationIsInterface = TRUE]]

InterfaceDependencies(st, t, iface, head) ==
  IF iface.ExplicitLibraries
  THEN IF GetType(t) \in {"SHARED_LIBRARY", "STATIC_LIBRARY"}
       THEN WithSharedDeps(iface, GetLinkImplementation(st, t))
       ELSE [st |-> st, iface |-> iface]
  ELSE IF GetPolicyStatusCMP0022(t) \in {"WARN", "OLD"}
  THEN WithImplementationIsInterface(iface,
         GetLinkImplementationLibrariesInternal(st, t, head))
  ELSE [st |-> st, iface |-> iface]

\* the second part: the languages of the link implementation
WithLanguages(t, c) ==
  IF LinkLanguagePropagatesToDependents(t)
  THEN [st |-> GetLinkImplementation(c.st, t).st, iface |-> c.iface]
  ELSE c

ComputeLinkInterface(st, t, iface, head) ==
  WithLanguages(t, InterfaceDependencies(st, t, iface, head))

\* the entry stored in a map of interfaces, and returned if it exists
ReturnInterface(map, t, head, c) ==
  [st |-> [c.st EXCEPT ![map][t] = WithEntry(@, head, c.iface)],
   isNull |-> ~c.iface.Exists, entry |-> head, iface |-> c.iface]

\* the shortcut: the first entry returned, whether or not it exists
ReturnFirstEntry(st, hm) ==
  [st |-> st, isNull |-> FALSE, entry |-> Begin(hm), iface |-> hm[Begin(hm)]]

NullInterface(st) ==
  [st |-> st, isNull |-> TRUE, entry |-> NoTarget, iface |-> NewLinkInterface]

\* the libraries step taken whether or not LibrariesDone is set
LibrariesComputedAgain(st, t, iface, head, usage_requirements_only) ==
  ComputeLinkInterfaceLibraries(
    st, t, [iface EXCEPT !.LibrariesDone = TRUE], head,
    usage_requirements_only)

\* if(!iface.LibrariesDone) of GetLinkInterface, GetLinkInterfaceLibraries
LibrariesComputed(st, t, iface, head, usage_requirements_only) ==
  IF iface.LibrariesDone THEN [st |-> st, iface |-> iface]
  ELSE ComputeLinkInterfaceLibraries(
         st, t, [iface EXCEPT !.LibrariesDone = TRUE], head,
         usage_requirements_only)

AllComputed(t, head, c) ==
  IF c.iface.AllDone THEN c
  ELSE IF c.iface.Exists
  THEN ComputeLinkInterface(c.st, t, [c.iface EXCEPT !.AllDone = TRUE], head)
  ELSE [st |-> c.st, iface |-> [c.iface EXCEPT !.AllDone = TRUE]]

\* IsImported()
IsImported(t) == lnkTargets[t].imported

\* GetImportInfo(config): the properties of an imported target, if it has
\* a location for the configuration
GetImportInfo(t) == lnkTargets[t].ImportInfo

\* the entry of GetImportLinkInterface: computed in one step
ImportedInterface(t, iface, head, usage_requirements_only) ==
  IF iface.AllDone THEN iface
  ELSE [iface EXCEPT
          !.AllDone = TRUE,
          !.Libraries = @ \o ExpandLinkItems(t, GetImportInfo(t).Libraries,
                                             head, usage_requirements_only),
          !.HadHeadSensitiveCondition =
             GetHadHeadSensitiveCondition(GetImportInfo(t).Libraries),
          !.SharedDeps = @ \o LookupLinkItems(t, GetImportInfo(t).SharedDeps,
                                              1)]

\* return &iface of GetImportLinkInterface
ReturnImportedInterface(st, map, t, head, iface) ==
  [st |-> [st EXCEPT ![map][t] = WithEntry(@, head, iface)],
   isNull |-> FALSE, entry |-> head, iface |-> iface]

\* the map of GetImportLinkInterface, GetLinkInterfaceLibraries:
\* GetHeadToLinkInterfaceUsageRequirementsMap or GetHeadToLinkInterfaceMap
HeadToLinkInterfaceMap(usage_requirements_only) ==
  IF usage_requirements_only THEN "LinkInterfaceUsageRequirementsOnlyMap"
  ELSE "LinkInterfaceMap"

\* GetImportLinkInterface(config, headTarget, usage_requirements_only)
GetImportLinkInterface(st, t, head, usage_requirements_only) ==
  IF ~GetImportInfo(t).exists
  THEN [st |-> st, isNull |-> TRUE, entry |-> NoTarget,
        iface |-> NewLinkInterface]
  ELSE IF FirstEntryServesAll(
            st[HeadToLinkInterfaceMap(usage_requirements_only)][t])
  THEN ReturnFirstEntry(st,
         st[HeadToLinkInterfaceMap(usage_requirements_only)][t])
  ELSE ReturnImportedInterface(st,
         HeadToLinkInterfaceMap(usage_requirements_only), t, head,
         ImportedInterface(t,
           EntryOf(st[HeadToLinkInterfaceMap(usage_requirements_only)][t],
                   head, NewLinkInterface),
           head, usage_requirements_only))

\* GetLinkInterface(config, head)
GetLinkInterface(st, t, head) ==
  IF IsImported(t) THEN GetImportLinkInterface(st, t, head, FALSE)
  ELSE IF GetType(t) = "EXECUTABLE" /\ ~IsExecutableWithExports(t)
  THEN NullInterface(st)
  ELSE IF FirstEntryServesAll(st.LinkInterfaceMap[t])
  THEN ReturnFirstEntry(st, st.LinkInterfaceMap[t])
  ELSE ReturnInterface("LinkInterfaceMap", t, head,
         AllComputed(t, head,
           LibrariesComputed(st, t,
             EntryOf(st.LinkInterfaceMap[t], head, NewLinkInterface),
             head, FALSE)))

\* GetLinkInterfaceLibraries(config, head, usage_requirements_only)
GetLinkInterfaceLibraries(st, t, head, usage_requirements_only) ==
  IF IsImported(t)
  THEN GetImportLinkInterface(st, t, head, usage_requirements_only)
  ELSE IF GetType(t) = "EXECUTABLE" /\ ~IsExecutableWithExports(t)
  THEN NullInterface(st)
  ELSE IF FirstEntryServesAll(
            st[HeadToLinkInterfaceMap(usage_requirements_only)][t])
  THEN ReturnFirstEntry(st,
         st[HeadToLinkInterfaceMap(usage_requirements_only)][t])
  ELSE ReturnInterface(HeadToLinkInterfaceMap(usage_requirements_only),
         t, head,
         LibrariesComputed(st, t,
           EntryOf(st[HeadToLinkInterfaceMap(usage_requirements_only)][t],
                   head, NewLinkInterface),
           head, usage_requirements_only))

\* processILibs: acc holds the caches, the closure so far and the names
\* emitted
RECURSIVE processILibs(_, _, _), processLibraries(_, _, _, _)
followInterface(head, acc, r) ==
  IF r.isNull THEN [acc EXCEPT !.st = r.st]
  ELSE processLibraries(head, r.iface.Libraries, 1, [acc EXCEPT !.st = r.st])

processILibs(head, item, acc) ==
  IF item.Target # NoTarget /\ item.Target \notin acc.emitted
  THEN followInterface(head,
         [acc EXCEPT !.tgts = Append(@, item.Target),
                     !.emitted = @ \cup {item.Target}],
         GetLinkInterfaceLibraries(acc.st, item.Target, head, TRUE))
  ELSE acc

processLibraries(head, libs, i, acc) ==
  IF i > Len(libs) THEN acc
  ELSE processLibraries(head, libs, i + 1, processILibs(head, libs[i], acc))

\* the closure computed from the link implementation r and stored
ComputedClosure(t, r) ==
  processLibraries(t, r.ret.Libraries, 1,
    [st |-> [r.st EXCEPT !.LinkImplClosureMap[t].Done = TRUE],
     tgts |-> r.st.LinkImplClosureMap[t].targets, emitted |-> {}])

StoreClosure(t, acc) ==
  [st |-> [acc.st EXCEPT !.LinkImplClosureMap[t].targets = acc.tgts],
   ret |-> acc.tgts]

\* GetLinkImplementationClosure(config)
GetLinkImplementationClosure(st, t) ==
  IF st.LinkImplClosureMap[t].Done
  THEN [st |-> st, ret |-> st.LinkImplClosureMap[t].targets]
  ELSE StoreClosure(t,
         ComputedClosure(t, GetLinkImplementationLibraries(st, t)))

\* the most calls made in one run
MaxLinkCalls == 2

\* the targets: executables A and B link the library under study, L, whose
\* type, policy setting and properties vary; K is a static library that
\* links L back, and "m" is a library that is no target
NoImportInfo == [exists |-> FALSE, Libraries |-> NullLibs, SharedDeps |-> <<>>]

LinkTarget(type, exports, policy, libraries, props) ==
  [type |-> type, ENABLE_EXPORTS |-> exports, CMP0022 |-> policy,
   LINK_LIBRARIES |-> libraries, props |-> props, imported |-> FALSE,
   ImportInfo |-> NoImportInfo]

LinkProps(new, old, oldConfig) ==
  [INTERFACE_LINK_LIBRARIES |-> new, LINK_INTERFACE_LIBRARIES |-> old,
   LINK_INTERFACE_LIBRARIES_NOCONFIG |-> oldConfig]

NoLinkProps == LinkProps(NullLibs, NullLibs, NullLibs)

LinkTypes ==
  {<<"STATIC_LIBRARY", FALSE>>, <<"SHARED_LIBRARY", FALSE>>,
   <<"MODULE_LIBRARY", FALSE>>, <<"EXECUTABLE", FALSE>>,
   <<"EXECUTABLE", TRUE>>}

LinkLibrariesChoices ==
  {<<>>, <<PlainLibs(<<"K">>)>>, <<PlainLibs(<<"L">>), HeadLibs("A", <<"K">>)>>}

LinkPropsChoices ==
  {LinkProps(new, old[1], old[2]) :
     new \in {NullLibs, PlainLibs(<<"K">>), HeadLibs("A", <<"K">>),
              LinkOnlyLibs(<<"K">>)},
     old \in {<<NullLibs, NullLibs>>, <<PlainLibs(<<"m">>), NullLibs>>,
              <<PlainLibs(<<"m">>), PlainLibs(<<"K">>)>>}}

\* an imported shared library with the properties of its configuration
ImportedTarget(info) ==
  [LinkTarget("SHARED_LIBRARY", FALSE, "NEW", <<>>, NoLinkProps)
     EXCEPT !.imported = TRUE, !.ImportInfo = info]

ImportInfoChoices ==
  {NoImportInfo,
   [exists |-> TRUE, Libraries |-> PlainLibs(<<"K">>), SharedDeps |-> <<"m">>],
   [exists |-> TRUE, Libraries |-> HeadLibs("A", <<"K">>),
    SharedDeps |-> <<>>]}

\* the library under study: built by the project, or imported
LinkedLibraryChoices ==
  {LinkTarget(type[1], type[2], policy, libraries, props) :
     type \in LinkTypes, policy \in {"OLD", "WARN", "NEW"},
     libraries \in LinkLibrariesChoices, props \in LinkPropsChoices}
  \cup {ImportedTarget(info) : info \in ImportInfoChoices}

PointerOrders == {<<"A", "B", "K", "L">>, <<"L", "K", "B", "A">>}

NoLinkCall ==
  [op |-> "none", target |-> NoTarget, head |-> NoTarget,
   usage_requirements_only |-> FALSE, isNull |-> TRUE, entry |-> NoTarget,
   iface |-> NewLinkInterface, closure |-> <<>>]

LnkInit ==
  /\ \E library \in LinkedLibraryChoices :
       lnkTargets =
         [t \in LnkTargets |->
            CASE t = "A" -> LinkTarget("EXECUTABLE", FALSE, "OLD",
                                       <<PlainLibs(<<"L">>)>>, NoLinkProps)
              [] t = "B" -> LinkTarget("EXECUTABLE", FALSE, "OLD",
                                       <<PlainLibs(<<"K", "L">>)>>,
                                       NoLinkProps)
              [] t = "K" -> LinkTarget("STATIC_LIBRARY", FALSE, "OLD",
                                       <<PlainLibs(<<"L", "m">>)>>,
                                       NoLinkProps)
              [] t = "L" -> library]
  /\ lnkPointers \in PointerOrders
  /\ LinkInterfaceMap = [t \in LnkTargets |-> <<>>]
  /\ LinkInterfaceUsageRequirementsOnlyMap = [t \in LnkTargets |-> <<>>]
  /\ LinkImplMap = [t \in LnkTargets |-> <<>>]
  /\ LinkImplClosureMap = [t \in LnkTargets |-> NewClosure]
  /\ PolicyWarnedCMP0022 = [t \in LnkTargets |-> FALSE]
  /\ lnkMessages = <<>>
  /\ lnkCalls = 0
  /\ lnkRet = NoLinkCall

\* the caches and flags as a call leaves them
LnkStore(st) ==
  /\ LinkInterfaceMap' = st.LinkInterfaceMap
  /\ LinkInterfaceUsageRequirementsOnlyMap' =
       st.LinkInterfaceUsageRequirementsOnlyMap
  /\ LinkImplMap' = st.LinkImplMap
  /\ LinkImplClosureMap' = st.LinkImplClosureMap
  /\ PolicyWarnedCMP0022' = st.PolicyWarnedCMP0022
  /\ lnkMessages' = st.messages
  /\ lnkCalls' = lnkCalls + 1
  /\ UNCHANGED <<lnkTargets, lnkPointers>>

LnkReturnInterface(op, t, head, usage_requirements_only, r) ==
  /\ LnkStore(r.st)
  /\ lnkRet' = [op |-> op, target |-> t, head |-> head,
                usage_requirements_only |-> usage_requirements_only,
                isNull |-> r.isNull, entry |-> r.entry, iface |-> r.iface,
                closure |-> <<>>]

LnkReturnClosure(t, r) ==
  /\ LnkStore(r.st)
  /\ lnkRet' = [NoLinkCall EXCEPT !.op = "GetLinkImplementationClosure",
                                  !.target = t, !.closure = r.ret]

\* a call of L.GetLinkInterface(config, head)
LnkGetLinkInterface(t, head) ==
  /\ UNCHANGED lnkOthers
  /\ lnkCalls < MaxLinkCalls
  /\ LnkReturnInterface("GetLinkInterface", t, head, FALSE,
                        GetLinkInterface(LinkState, t, head))

\* a call of L.GetLinkInterfaceLibraries(config, head, usage_requirements_only)
LnkGetLinkInterfaceLibraries(t, head, usage_requirements_only) ==
  /\ UNCHANGED lnkOthers
  /\ lnkCalls < MaxLinkCalls
  /\ LnkReturnInterface("GetLinkInterfaceLibraries", t, head,
                        usage_requirements_only,
                        GetLinkInterfaceLibraries(LinkState, t, head,
                                                  usage_requirements_only))

\* a call of t.GetLinkImplementationClosure(config)
LnkGetLinkImplementationClosure(t) ==
  /\ UNCHANGED lnkOthers
  /\ lnkCalls < MaxLinkCalls
  /\ LnkReturnClosure(t, GetLinkImplementationClosure(LinkState, t))

LinkHeads == {"A", "B"}

\* the targets whose closure is asked for: the executables, and K, which
\* the library under study may link back
ClosureTargets == {"A", "B", "K"}

LnkNext ==
  \/ \E head \in LinkHeads : LnkGetLinkInterface("L", head)
  \/ \E head \in LinkHeads, usage_requirements_only \in BOOLEAN :
       LnkGetLinkInterfaceLibraries("L", head, usage_requirements_only)
  \/ \E t \in ClosureTargets : LnkGetLinkImplementationClosure(t)

LnkIdle ==
  /\ lnkTargets = <<>>
  /\ lnkPointers = <<>>
  /\ LinkInterfaceMap = <<>>
  /\ LinkInterfaceUsageRequirementsOnlyMap = <<>>
  /\ LinkImplMap = <<>>
  /\ LinkImplClosureMap = <<>>
  /\ PolicyWarnedCMP0022 = <<>>
  /\ lnkMessages = <<>>
  /\ lnkCalls = 0
  /\ lnkRet = NoLinkCall

-----------------------------------------------------------------------------
(* Claims about link interfaces and closures. *)

\* the last call asked for a link interface
InterfaceCall == lnkRet.op \in {"GetLinkInterface", "GetLinkInterfaceLibraries"}

\* none of the interface-libraries properties is set on the target
NoInterfaceLibrariesProperty(t) ==
  \A p \in DOMAIN lnkTargets[t].props : lnkTargets[t].props[p].null

\* C8: for an executable without exported symbols, and for a module library
\* with no explicit interface-libraries property, GetLinkInterface and
\* GetLinkInterfaceLibraries return null on every call, whatever the head and
\* whatever calls came before.
C8_NullOnEveryCall ==
  (/\ InterfaceCall
   /\ \/ GetType(lnkRet.target) = "EXECUTABLE"
         /\ ~IsExecutableWithExports(lnkRet.target)
      \/ GetType(lnkRet.target) = "MODULE_LIBRARY"
         /\ NoInterfaceLibrariesProperty(lnkRet.target))
  => lnkRet.isNull

\* the link-implementation libraries of a target for a head
LinkImplementationFor(t, head) ==
  ComputeLinkImplementationLibraries(t, NewLinkImplementation, head, 1)
    .Libraries

\* C9: for a static library with no explicit interface-libraries property
\* GetLinkInterface returns an existing interface for every head; under
\* CMP0022 OLD or WARN its libraries are the link-implementation libraries
\* for that head, under NEW they are empty.
C9_StaticLibraryInterface ==
  (/\ lnkRet.op = "GetLinkInterface"
   /\ GetType(lnkRet.target) = "STATIC_LIBRARY"
   /\ NoInterfaceLibrariesProperty(lnkRet.target))
  => /\ ~lnkRet.isNull
     /\ lnkRet.iface.Exists
     /\ lnkRet.iface.Libraries =
          (IF GetPolicyStatusCMP0022(lnkRet.target) \in {"OLD", "WARN"}
           THEN LinkImplementationFor(lnkRet.target, lnkRet.head)
           ELSE <<>>)

\* nothing computed yet
FreshLinkState ==
  [LinkInterfaceMap |-> [t \in LnkTargets |-> <<>>],
   LinkInterfaceUsageRequirementsOnlyMap |-> [t \in LnkTargets |-> <<>>],
   LinkImplMap |-> [t \in LnkTargets |-> <<>>],
   LinkImplClosureMap |-> [t \in LnkTargets |-> NewClosure],
   PolicyWarnedCMP0022 |-> [t \in LnkTargets |-> FALSE],
   messages |-> <<>>]

\* the link-interface libraries a target exposes to a head: none when it
\* has no link interface
InterfaceLibrariesOf(r) == IF r.isNull THEN <<>> ELSE r.iface.Libraries

LinkInterfaceFor(t, head) ==
  InterfaceLibrariesOf(GetLinkInterfaceLibraries(FreshLinkState, t, head, TRUE))

\* the targets among the items of a list, in order
RECURSIVE TargetsOf(_, _)
TargetsOf(libs, i) ==
  IF i > Len(libs) THEN <<>>
  ELSE (IF libs[i].Target = NoTarget THEN <<>> ELSE <<libs[i].Target>>)
       \o TargetsOf(libs, i + 1)

\* depth-first search, first visits in order
RECURSIVE DepthFirst(_, _, _, _)
DepthFirst(head, targets, i, order) ==
  IF i > Len(targets) THEN order
  ELSE IF \E j \in 1..Len(order) : order[j] = targets[i]
  THEN DepthFirst(head, targets, i + 1, order)
  ELSE DepthFirst(head, targets, i + 1,
         DepthFirst(head, TargetsOf(LinkInterfaceFor(targets[i], head), 1), 1,
                    Append(order, targets[i])))

ReachableDepthFirst(t) ==
  DepthFirst(t, TargetsOf(LinkImplementationFor(t, t), 1), 1, <<>>)

\* C10: GetLinkImplementationClosure(T) returns the targets reachable from
\* T's direct link-implementation libraries through the link-interface
\* libraries of each target reached, each once, in depth-first first-visit
\* order.
C10_ClosureIsReachableSet ==
  lnkRet.op = "GetLinkImplementationClosure"
  => lnkRet.closure = ReachableDepthFirst(lnkRet.target)

-----------------------------------------------------------------------------
(* The link closure: the languages linked into a target and the language
   whose linker is used.  The target is T; the targets it links hand out
   the link interface GetLinkInterface(config, T) computes for them.
   cmGlobalGenerator::GetLinkerPreference never returns a negative value. *)

Languages == {"C", "CXX", "Fortran"}

\* the order of std::set<std::string>
LanguageOrder == <<"C", "CXX", "Fortran">>

LanguageIndex(lang) ==
  CHOOSE i \in 1..Len(LanguageOrder) : LanguageOrder[i] = lang

\* a set of languages as the sequence an iteration in the given order yields
RECURSIVE InOrder(_, _, _)
InOrder(order, langs, i) ==
  IF i > Len(order) THEN <<>>
  ELSE (IF order[i] \in langs THEN <<order[i]>> ELSE <<>>)
       \o InOrder(order, langs, i + 1)

\* cmTargetCollectLinkLanguages::Visit: cll holds Visited, Languages and the
\* messages issued
RECURSIVE Visit(_, _), VisitLibraries(_, _, _)
VisitInterface(cll, iface) ==
  IF iface.isNull THEN cll
  ELSE VisitLibraries(iface.Libraries, 1,
                [cll EXCEPT !.Languages = @ \cup iface.Languages])

NotFoundMessage(cll, item) ==
  IF lngGlobal.CMP0028 = "OLD" THEN cll
  ELSE [cll EXCEPT !.messages =
          Append(@, [type |-> IF lngGlobal.CMP0028 = "WARN"
                              THEN "AUTHOR_WARNING" ELSE "FATAL_ERROR",
                     text |-> "links to target " \o item.name
                              \o " but the target was not found"])]

Visit(item, cll) ==
  IF item.Target = NoTarget
  THEN IF item.scoped THEN NotFoundMessage(cll, item) ELSE cll
  ELSE IF item.Target \in cll.Visited THEN cll
  ELSE VisitInterface([cll EXCEPT !.Visited = @ \cup {item.Target}],
                      lngTarget.interfaces[item.Target])

VisitLibraries(libs, i, cll) ==
  IF i > Len(libs) THEN cll
  ELSE VisitLibraries(libs, i + 1, Visit(libs[i], cll))

\* cmTargetSelectLinker(target)
NewSelectLinker == [Preference |-> 0, Preferred |-> {}]

GetLinkerPreference(lang) == lngGlobal.preference[lang]

\* Consider with a tie kept out of Preferred
ConsiderPreferredFirstOnly(tsl, lang) ==
  IF GetLinkerPreference(lang) = tsl.Preference /\ tsl.Preferred = {}
  THEN [tsl EXCEPT !.Preferred = @ \cup {lang}]
  ELSE tsl

\* cmTargetSelectLinker::Consider
ConsiderPreferred(tsl, lang) ==
  IF GetLinkerPreference(lang) = tsl.Preference
  THEN [tsl EXCEPT !.Preferred = @ \cup {lang}]
  ELSE tsl

Consider(tsl, lang) ==
  ConsiderPreferred(
    IF GetLinkerPreference(lang) > tsl.Preference
    THEN [Preference |-> GetLinkerPreference(lang), Preferred |-> {}]
    ELSE tsl,
    lang)

RECURSIVE ConsiderAll(_, _, _)
ConsiderAll(tsl, langs, i) ==
  IF i > Len(langs) THEN tsl
  ELSE ConsiderAll(Consider(tsl, langs[i]), langs, i + 1)

\* *this->Preferred.begin()
FirstPreferred(tsl) ==
  CHOOSE l \in tsl.Preferred :
    \A k \in tsl.Preferred : LanguageIndex(l) <= LanguageIndex(k)

MultipleLanguages ==
  "contains multiple languages with the highest linker preference"

\* cmTargetSelectLinker::Choose: the language, and the messages issued
Choose(tsl, messages) ==
  IF tsl.Preferred = {} THEN [language |-> "", messages |-> messages]
  ELSE [language |-> FirstPreferred(tsl),
        messages |->
          IF Cardinality(tsl.Preferred) > 1
          THEN Append(messages,
                      [type |-> "FATAL_ERROR", text |-> MultipleLanguages])
          ELSE messages]

\* every language taken as propagating
PropagatingAll(langs) == langs

\* the languages of the closure whose preference propagates
Propagating(langs) ==
  {l \in langs : lngGlobal.propagates[l]}

\* the closure with the language chosen by the selector
SelectedClosure(cll, c) ==
  [Languages |-> InOrder(lngGlobal.hashOrder, cll.Languages, 1),
   LinkerLanguage |-> c.language, messages |-> c.messages]

\* ComputeLinkClosure, cll the languages collected from the link libraries
ClosureOf(cll) ==
  IF lngTarget.props["HAS_CXX"] # Null
  THEN [Languages |-> InOrder(lngGlobal.hashOrder, cll.Languages, 1),
        LinkerLanguage |-> "CXX", messages |-> cll.messages]
  ELSE IF lngTarget.props["LINKER_LANGUAGE"] # Null
  THEN [Languages |-> InOrder(lngGlobal.hashOrder, cll.Languages, 1),
        LinkerLanguage |-> lngTarget.props["LINKER_LANGUAGE"],
        messages |-> cll.messages]
  ELSE SelectedClosure(cll,
         Choose(
           ConsiderAll(
             ConsiderAll(NewSelectLinker,
                         InOrder(LanguageOrder, lngTarget.Languages, 1), 1),
             InOrder(lngGlobal.hashOrder, Propagating(cll.Languages), 1), 1),
           cll.messages))

ComputeLinkClosure ==
  ClosureOf(VisitLibraries(lngTarget.Libraries, 1,
                     [Visited |-> {"T"}, Languages |-> lngTarget.Languages,
                      messages |-> lngMessages]))

\* the targets T links: D1 with one of three interfaces, D2 linking back,
\* a library that is no target and a scoped name that is no target
LinkedItem(name) ==
  [name |-> name, Target |-> IF name \in {"D1", "D2", "T"} THEN name
                             ELSE NoTarget,
   scoped |-> name = "Qt::Core"]

NoLanguageInterface == [isNull |-> TRUE, Languages |-> {}, Libraries |-> <<>>]

LanguageInterface(langs, names) ==
  [isNull |-> FALSE, Languages |-> langs,
   Libraries |-> [i \in 1..Len(names) |-> LinkedItem(names[i])]]

InterfaceChoices ==
  {NoLanguageInterface, LanguageInterface({"CXX"}, <<"D2", "T">>),
   LanguageInterface({}, <<"D2">>)}

NoLinkerCall ==
  [op |-> "none", config |-> "", language |-> "", computed |-> FALSE,
   issued |-> <<>>]

LngInit ==
  /\ \E hasCxx \in {Null, "ON"}, linkerLanguage \in {Null, "Fortran"},
        langs \in SUBSET Languages, d1 \in InterfaceChoices :
       lngTarget =
         [props |-> [HAS_CXX |-> hasCxx, LINKER_LANGUAGE |-> linkerLanguage],
          Languages |-> langs,
          Libraries |-> <<LinkedItem("D1"), LinkedItem("m"),
                          LinkedItem("Qt::Core")>>,
          interfaces |->
            [D1 |-> d1,
             D2 |-> LanguageInterface({"Fortran"}, <<"D1">>),
             T |-> NoLanguageInterface]]
  /\ \E pc \in {0, 1}, px \in {0, 1, 2}, pf \in {1, 2},
        propagates \in [{"CXX", "Fortran"} -> BOOLEAN],
        policy \in {"OLD", "NEW"},
        hashOrder \in {<<"C", "CXX", "Fortran">>, <<"Fortran", "C", "CXX">>} :
       lngGlobal =
         [preference |-> [C |-> pc, CXX |-> px, Fortran |-> pf],
          propagates |-> [C |-> FALSE, CXX |-> propagates["CXX"],
                          Fortran |-> propagates["Fortran"]],
          CMP0028 |-> policy, hashOrder |-> hashOrder]
  /\ LinkClosureMap = <<>>
  /\ lngMessages = <<>>
  /\ lngRet = NoLinkerCall

\* GetLinkClosure with the closure computed and inserted
LngCompute(config, lc) ==
  /\ LinkClosureMap' =
       WithEntry(LinkClosureMap, UpperCase(config),
                 [Languages |-> lc.Languages,
                  LinkerLanguage |-> lc.LinkerLanguage])
  /\ lngMessages' = lc.messages
  /\ lngRet' = [op |-> "GetLinkerLanguage", config |-> config,
                language |-> lc.LinkerLanguage, computed |-> TRUE,
                issued |-> SubSeq(lc.messages, Len(lngMessages) + 1,
                                  Len(lc.messages))]

\* GetLinkerLanguage(config): GetLinkClosure(config)->LinkerLanguage
GetLinkerLanguage(config) ==
  /\ UNCHANGED lngOthers
  /\ UNCHANGED <<lngTarget, lngGlobal>>
  /\ IF UpperCase(config) \notin DOMAIN LinkClosureMap
     THEN LngCompute(config, ComputeLinkClosure)
     ELSE /\ lngRet' = [op |-> "GetLinkerLanguage", config |-> config,
                        language |->
                          LinkClosureMap[UpperCase(config)].LinkerLanguage,
                        computed |-> FALSE, issued |-> <<>>]
          /\ UNCHANGED <<LinkClosureMap, lngMessages>>

LngNext == \E config \in {"", "Debug"} : GetLinkerLanguage(config)

LngIdle ==
  /\ lngTarget = <<>>
  /\ lngGlobal = <<>>
  /\ LinkClosureMap = <<>>
  /\ lngMessages = <<>>
  /\ lngRet = NoLinkerCall

-----------------------------------------------------------------------------
(* Claims about the linker language. *)

\* the last call computed the link closure
LinkerComputed == lngRet.op = "GetLinkerLanguage" /\ lngRet.computed

\* the fatal tie diagnostic is among the messages of the last call
TieReported ==
  \E i \in 1..Len(lngRet.issued) :
    lngRet.issued[i] = [type |-> "FATAL_ERROR", text |-> MultipleLanguages]

\* the languages of a set with the highest preference in it
Highest(langs) ==
  {l \in langs :
     \A k \in langs : lngGlobal.preference[k] <= lngGlobal.preference[l]}

\* the languages of the link closure, as stored
ClosureLanguages ==
  {LinkClosureMap[UpperCase(lngRet.config)].Languages[i] :
     i \in 1..Len(LinkClosureMap[UpperCase(lngRet.config)].Languages)}

\* the languages the selection considers
Candidates ==
  lngTarget.Languages
    \cup {l \in ClosureLanguages : lngGlobal.propagates[l]}

\* C11 as stated: with no LINKER_LANGUAGE property and two or more
\* compiled languages sharing the highest preference, computing the linker
\* language issues the fatal tie diagnostic.
C11_AsStated ==
  (/\ LinkerComputed
   /\ lngTarget.props["LINKER_LANGUAGE"] = Null
   /\ Cardinality(Highest(lngTarget.Languages)) >= 2)
  => TieReported

\* C11: with neither HAS_CXX nor LINKER_LANGUAGE set, two or more compiled
\* languages sharing the highest preference, and no propagating closure
\* language of a higher preference, computing the linker language issues
\* the fatal tie diagnostic.
C11_TieIsFatal ==
  (/\ LinkerComputed
   /\ lngTarget.props["HAS_CXX"] = Null
   /\ lngTarget.props["LINKER_LANGUAGE"] = Null
   /\ Cardinality(Highest(lngTarget.Languages)) >= 2
   /\ Highest(Candidates) \cap lngTarget.Languages # {})
  => TieReported

C11_Witness ==
  /\ LinkerComputed
  /\ lngTarget.props["HAS_CXX"] = Null
  /\ lngTarget.props["LINKER_LANGUAGE"] = Null
  /\ lngTarget.Languages = {"C", "CXX"}
  /\ lngGlobal.preference["C"] = 0
  /\ lngGlobal.preference["CXX"] = 0
  /\ TieReported

\* the first of a set of languages in the order of their names
FirstByName(langs) ==
  CHOOSE l \in langs : \A k \in langs : LanguageIndex(l) <= LanguageIndex(k)

\* C12 as stated: the linker language is LINKER_LANGUAGE whenever that is
\* set, otherwise a language of the highest preference among the compiled
\* languages and the propagating closure languages.
C12_AsStated ==
  lngRet.op = "GetLinkerLanguage"
  => IF lngTarget.props["LINKER_LANGUAGE"] # Null
     THEN lngRet.language = lngTarget.props["LINKER_LANGUAGE"]
     ELSE lngRet.language \in Highest(Candidates)

\* C12: the linker language is "CXX" when HAS_CXX is set, else
\* LINKER_LANGUAGE when that is set, else the first by name of the languages
\* of the highest preference among the compiled languages and the
\* propagating closure languages, else (no such language) empty; a closure
\* language that does not propagate is chosen only if it is compiled too.
C12_LinkerLanguage ==
  lngRet.op = "GetLinkerLanguage"
  => /\ lngRet.language =
          (IF lngTarget.props["HAS_CXX"] # Null THEN "CXX"
           ELSE IF lngTarget.props["LINKER_LANGUAGE"] # Null
           THEN lngTarget.props["LINKER_LANGUAGE"]
           ELSE IF Candidates = {} THEN ""
           ELSE FirstByName(Highest(Candidates)))
     /\ (/\ lngTarget.props["HAS_CXX"] = Null
         /\ lngTarget.props["LINKER_LANGUAGE"] = Null
         /\ lngRet.language \in ClosureLanguages
         /\ ~lngGlobal.propagates[lngRet.language])
        => lngRet.language \in lngTarget.Languages

C12_Witness ==
  /\ LinkerComputed
  /\ lngTarget.props["HAS_CXX"] = Null
  /\ lngTarget.props["LINKER_LANGUAGE"] = Null
  /\ lngTarget.Languages = {"C"}
  /\ "Fortran" \in ClosureLanguages
  /\ "CXX" \in ClosureLanguages
  /\ lngGlobal.propagates["Fortran"]
  /\ ~lngGlobal.propagates["CXX"]
  /\ lngGlobal.preference["CXX"] = 2
  /\ lngGlobal.preference["Fortran"] = 1
  /\ lngGlobal.preference["C"] = 0
  /\ lngRet.language = "Fortran"

-----------------------------------------------------------------------------
(* Include directories, compile options, compile definitions and compile
   features of a non-imported target: the own entries, then the entries
   synthesized for the link implementation. *)

ListProperties ==
  {"INCLUDE_DIRECTORIES", "COMPILE_OPTIONS", "COMPILE_DEFINITIONS",
   "COMPILE_FEATURES"}

\* values that are no full path, and directories that do not exist
RelativeValues == {"rel"}

MissingDirectories == {"/gone"}

\* cmSystemTools::IsOff
IsOff(value) == value \in {"", "0", "OFF", "NO", "FALSE", "N", "IGNORE"}

\* cmSystemTools::ConvertToUnixSlashes: backslashes become slashes and a
\* trailing slash is dropped
ConvertToUnixSlashes(value) ==
  IF value \in {"/a/", "\\a"} THEN "/a" ELSE value

\* an entry: its values hold for one configuration ("*" for all)
OptEntry(values, when) == [values |-> values, when |-> when]

\* (*it)->ge->Evaluate(..., config, ...) expanded to a list
EvaluateEntry(entry, config) ==
  IF entry.when = "*" \/ entry.when = config THEN entry.values ELSE <<>>

\* a TargetPropertyEntry evaluated: the values and the LinkImplItem it was
\* made for (targetName "" for an entry of the target itself)
Evaluated(values, targetName, fromImported, fromGenex) ==
  [values |-> values, targetName |-> targetName,
   fromImported |-> fromImported, FromGenex |-> fromGenex]

\* the own entries of a property, evaluated
OwnEntries(prop, config) ==
  [i \in 1..Len(optTarget.entries[prop]) |->
     Evaluated(EvaluateEntry(optTarget.entries[prop][i], config), "",
               FALSE, FALSE)]

\* AddPropertyEntries: $<TARGET_PROPERTY:item,INTERFACE_prop> for every
\* link implementation item that is a target
RECURSIVE AddPropertyEntries(_, _, _, _)
AddPropertyEntries(libs, i, prop, config) ==
  IF i > Len(libs) THEN <<>>
  ELSE (IF libs[i].isTarget
        THEN <<Evaluated(EvaluateEntry(libs[i].interface[prop], config),
                         libs[i].name, libs[i].imported, libs[i].FromGenex)>>
        ELSE <<>>)
       \o AddPropertyEntries(libs, i + 1, prop, config)

LogMessage(logName, used) ==
  [type |-> "LOG", text |-> "Used " \o logName, values |-> used]

\* the loop over the values of one entry of processCompileOptionsInternal:
\* acc holds the options so far and the values used of this entry
RECURSIVE OptionValues(_, _, _)
OptionValues(values, i, acc) ==
  IF i > Len(values) THEN acc
  ELSE OptionValues(values, i + 1,
         IF \E k \in 1..Len(acc.options) : acc.options[k] = values[i]
         THEN acc
         ELSE [options |-> Append(acc.options, values[i]),
               used |-> Append(acc.used, values[i])])

\* the end of the loop body: the LOG message of the entry
OptionsLogged(r, msgs, debugOptions, logName) ==
  [options |-> r.options,
   msgs |-> IF debugOptions /\ r.used # <<>>
            THEN Append(msgs, LogMessage(logName, r.used)) ELSE msgs]

\* processCompileOptionsInternal: st holds the options and the messages
RECURSIVE processCompileOptionsInternal(_, _, _, _, _)
processCompileOptionsInternal(entries, i, st, debugOptions, logName) ==
  IF i > Len(entries) THEN st
  ELSE processCompileOptionsInternal(entries, i + 1,
         OptionsLogged(
           OptionValues(entries[i].values, 1,
                        [options |-> st.options, used |-> <<>>]),
           st.msgs, debugOptions, logName),
         debugOptions, logName)

\* the message for a relative include directory: none under CMP0021 OLD
RelativePathMessage(entry) ==
  IF entry.targetName # ""
  THEN [type |-> "FATAL_ERROR",
        text |-> "contains relative path in its INTERFACE_INCLUDE_DIRECTORIES",
        values |-> <<>>]
  ELSE [type |-> IF optTarget.CMP0021 = "WARN" THEN "AUTHOR_WARNING"
                 ELSE "FATAL_ERROR",
        text |-> "Found relative path while evaluating include directories",
        values |-> <<>>]

\* the message with the policy consulted for every entry
MissingPathMessageByPolicy(entry) ==
  [type |-> IF optTarget.CMP0027 \in {"WARN", "OLD"}
            THEN "AUTHOR_WARNING" ELSE "FATAL_ERROR",
   text |-> "includes non-existent path", values |-> <<>>]

\* the message for a directory of an imported target that does not exist:
\* checkCMP0027 = item.FromGenex decides whether the policy is consulted
MissingPathMessage(entry) ==
  [type |-> IF entry.FromGenex /\ optTarget.CMP0027 \in {"WARN", "OLD"}
            THEN "AUTHOR_WARNING" ELSE "FATAL_ERROR",
   text |-> "includes non-existent path", values |-> <<>>]

\* one value of an entry of processIncludeDirectories: acc holds the
\* includes, the messages, the values used of the entry and whether the
\* function has returned
IncludeAppended(inc, acc) ==
  [acc EXCEPT !.includes = Append(@, inc), !.used = Append(@, inc)]

IncludeAccepted(inc, acc) ==
  IF \E k \in 1..Len(acc.includes) : acc.includes[k] = inc THEN acc
  ELSE [acc EXCEPT !.includes = Append(@, inc), !.used = Append(@, inc)]

IncludeValue(entry, li, acc) ==
  IF entry.fromImported /\ li \in MissingDirectories
  THEN [acc EXCEPT !.msgs = Append(@, MissingPathMessage(entry)),
                   !.returned = TRUE]
  ELSE IF li \in RelativeValues
          /\ (entry.targetName # "" \/ optTarget.CMP0021 # "OLD")
  THEN IF RelativePathMessage(entry).type = "FATAL_ERROR"
       THEN [acc EXCEPT !.msgs = Append(@, RelativePathMessage(entry)),
                        !.returned = TRUE]
       ELSE IncludeAccepted(
              IF IsOff(li) THEN li ELSE ConvertToUnixSlashes(li),
              [acc EXCEPT !.msgs = Append(@, RelativePathMessage(entry))])
  ELSE IncludeAccepted(IF IsOff(li) THEN li ELSE ConvertToUnixSlashes(li),
                       acc)

RECURSIVE IncludeValues(_, _, _)
IncludeValues(entry, i, acc) ==
  IF i > Len(entry.values) \/ acc.returned THEN acc
  ELSE IncludeValues(entry, i + 1, IncludeValue(entry, entry.values[i], acc))

IncludesLogged(r, debugIncludes) ==
  [includes |-> r.includes, returned |-> r.returned,
   msgs |-> IF debugIncludes /\ r.used # <<>> /\ ~r.returned
            THEN Append(r.msgs, LogMessage("includes", r.used)) ELSE r.msgs]

\* processIncludeDirectories: st holds the includes and the messages
RECURSIVE IncludeEntries(_, _, _, _)
IncludeEntries(entries, i, st, debugIncludes) ==
  IF i > Len(entries) \/ st.returned THEN st
  ELSE IncludeEntries(entries, i + 1,
         IncludesLogged(
           IncludeValues(entries[i], 1,
                         [includes |-> st.includes, msgs |-> st.msgs,
                          used |-> <<>>, returned |-> FALSE]),
           debugIncludes),
         debugIncludes)

processIncludeDirectories(entries, st, debugIncludes) ==
  [IncludeEntries(entries, 1,
                  [includes |-> st.includes, msgs |-> st.msgs,
                   returned |-> FALSE], debugIncludes)
   EXCEPT !.returned = FALSE]

\* the entries GetIncludeDirectories adds on APPLE for the libraries that
\* lie in a framework
RECURSIVE FrameworkEntries(_, _)
FrameworkEntries(libs, i) ==
  IF i > Len(libs) THEN <<>>
  ELSE (IF libs[i].framework # ""
        THEN <<Evaluated(<<libs[i].framework>>, "", FALSE, FALSE)>>
        ELSE <<>>)
       \o FrameworkEntries(libs, i + 1)

\* the entry GetCompileDefinitions adds for COMPILE_DEFINITIONS_<CONFIG>
\* under CMP0043 OLD or WARN
ConfigDefinitionEntries(config) ==
  IF config # "" /\ optTarget.configDefinitions # <<>>
     /\ optTarget.CMP0043 \in {"WARN", "OLD"}
  THEN <<Evaluated(optTarget.configDefinitions, "", FALSE, FALSE)>>
  ELSE <<>>

ConfigDefinitionMessages(config) ==
  IF config # "" /\ optTarget.configDefinitions # <<>>
     /\ optTarget.CMP0043 = "WARN"
  THEN <<[type |-> "AUTHOR_WARNING", text |-> "CMP0043", values |-> <<>>]>>
  ELSE <<>>

\* debugIncludes, debugOptions, ...: the property is being debugged and has
\* not been reported
DebugPropertyEveryCall(prop) == prop \in optTarget.debugProperties

DebugProperty(prop) ==
  ~optDone[prop] /\ prop \in optTarget.debugProperties

\* GetIncludeDirectories(config, lang)
GetIncludeDirectories(config) ==
  processIncludeDirectories(
    AddPropertyEntries(optTarget.libraries, 1,
                        "INCLUDE_DIRECTORIES", config)
      \o (IF optTarget.APPLE THEN FrameworkEntries(optTarget.libraries, 1)
          ELSE <<>>),
    processIncludeDirectories(OwnEntries("INCLUDE_DIRECTORIES", config),
                              [includes |-> <<>>, msgs |-> <<>>],
                              DebugProperty("INCLUDE_DIRECTORIES")),
    DebugProperty("INCLUDE_DIRECTORIES"))

\* GetCompileOptions, GetCompileFeatures and GetCompileDefinitions
GetCompileList(prop, config, logName, extra, extraMsgs) ==
  processCompileOptionsInternal(
    AddPropertyEntries(optTarget.libraries, 1, prop, config) \o extra, 1,
    [processCompileOptionsInternal(OwnEntries(prop, config), 1,
                                   [options |-> <<>>, msgs |-> <<>>],
                                   DebugProperty(prop), logName)
     EXCEPT !.msgs = @ \o extraMsgs],
    DebugProperty(prop), logName)

GetCompileOptions(config) ==
  GetCompileList("COMPILE_OPTIONS", config, "options", <<>>, <<>>)

GetCompileFeatures(config) ==
  GetCompileList("COMPILE_FEATURES", config, "features", <<>>, <<>>)

GetCompileDefinitions(config) ==
  GetCompileList("COMPILE_DEFINITIONS", config, "definitions",
                 ConfigDefinitionEntries(config),
                 ConfigDefinitionMessages(config))

\* the targets and plain libraries a target may link
NoInterface == [prop \in ListProperties |-> OptEntry(<<>>, "*")]

SameInterface(values, when) ==
  [prop \in ListProperties |-> OptEntry(values, when)]

LinkedLibrary(name, isTarget, imported, fromGenex, interface, framework) ==
  [name |-> name, isTarget |-> isTarget, imported |-> imported,
   FromGenex |-> fromGenex, interface |-> interface, framework |-> framework]

LibraryChoices ==
  { <<>>,
    <<LinkedLibrary("B", TRUE, FALSE, FALSE,
                    SameInterface(<<"/c", "/a">>, "*"), "")>>,
    <<LinkedLibrary("m", FALSE, FALSE, FALSE, NoInterface, ""),
      LinkedLibrary("B", TRUE, FALSE, FALSE,
                    SameInterface(<<"/c">>, "Debug"), ""),
      LinkedLibrary("K", TRUE, FALSE, FALSE,
                    SameInterface(<<"rel", "/d">>, "*"), "")>>,
    <<LinkedLibrary("I", TRUE, TRUE, FALSE,
                    SameInterface(<<"/gone", "/c">>, "*"), "")>>,
    <<LinkedLibrary("I", TRUE, TRUE, TRUE,
                    SameInterface(<<"/c", "/gone">>, "*"), ""),
      LinkedLibrary("B", TRUE, FALSE, FALSE,
                    SameInterface(<<"/d">>, "*"), "")>>,
    <<LinkedLibrary("/F/Qt.framework/Qt", FALSE, FALSE, FALSE, NoInterface,
                    "/F/Qt.framework"),
      LinkedLibrary("B", TRUE, FALSE, FALSE,
                    SameInterface(<<"/c">>, "*"), "")>> }

OwnChoices ==
  { <<>>,
    <<OptEntry(<<"/a", "/b">>, "*")>>,
    <<OptEntry(<<"/b", "/a/">>, "*"), OptEntry(<<"/a", "/c">>, "Debug")>>,
    <<OptEntry(<<"/b", "rel">>, "*"), OptEntry(<<"/a">>, "*")>> }

OptConfigs == {"", "Debug"}

\* the calls made of one target
MaxPropertyCalls == 2

NoOptCall ==
  [op |-> "none", config |-> "", list |-> <<>>, msgs |-> <<>>, call |-> 0]

OptInit ==
  /\ \E own \in OwnChoices, libs \in LibraryChoices,
        policy \in {"WARN", "OLD", "NEW"},
        defs \in {<<>>, <<"/e", "/a">>}, done \in BOOLEAN,
        debug \in {{}, ListProperties} :
     \E apple \in IF \E i \in 1..Len(libs) : libs[i].framework # ""
                  THEN BOOLEAN ELSE {FALSE} :
       optTarget = [entries |-> [prop \in ListProperties |-> own],
                    libraries |-> libs, APPLE |-> apple, CMP0021 |-> policy,
                    CMP0027 |-> policy, CMP0043 |-> policy,
                    configDefinitions |-> defs, configureDone |-> done,
                    debugProperties |-> debug]
  /\ optDone = [prop \in ListProperties |-> FALSE]
  /\ optRet = NoOptCall

\* the end of a call: Debug<Prop>Done is set once configuration is done
OptReturn(prop, config, list, msgs) ==
  /\ optRet.call < MaxPropertyCalls
  /\ optRet' = [op |-> prop, config |-> config, list |-> list, msgs |-> msgs,
                call |-> optRet.call + 1]
  /\ optDone' = IF optTarget.configureDone
                THEN [optDone EXCEPT ![prop] = TRUE] ELSE optDone
  /\ UNCHANGED optTarget
  /\ UNCHANGED optOthers

OptGetIncludeDirectories(config) ==
  OptReturn("INCLUDE_DIRECTORIES", config,
            GetIncludeDirectories(config).includes,
            GetIncludeDirectories(config).msgs)

OptGetCompileOptions(config) ==
  OptReturn("COMPILE_OPTIONS", config, GetCompileOptions(config).options,
            GetCompileOptions(config).msgs)

OptGetCompileDefinitions(config) ==
  OptReturn("COMPILE_DEFINITIONS", config,
            GetCompileDefinitions(config).options,
            GetCompileDefinitions(config).msgs)

OptGetCompileFeatures(config) ==
  OptReturn("COMPILE_FEATURES", config, GetCompileFeatures(config).options,
            GetCompileFeatures(config).msgs)

OptNext ==
  \E config \in OptConfigs :
    \/ OptGetIncludeDirectories(config)
    \/ OptGetCompileOptions(config)
    \/ OptGetCompileDefinitions(config)
    \/ OptGetCompileFeatures(config)

OptIdle ==
  /\ optTarget = [entries |-> [prop \in ListProperties |-> <<>>],
                  libraries |-> <<>>, APPLE |-> FALSE, CMP0021 |-> "NEW",
                  CMP0027 |-> "NEW", CMP0043 |-> "NEW",
                  configDefinitions |-> <<>>, configureDone |-> FALSE,
                  debugProperties |-> {}]
  /\ optDone = [prop \in ListProperties |-> FALSE]
  /\ optRet = NoOptCall

(* C13 *)
HasLog(msgs) == \E k \in 1..Len(msgs) : msgs[k].type = "LOG"

HasFatal(msgs) == \E k \in 1..Len(msgs) : msgs[k].type = "FATAL_ERROR"

\* a step that repeats the call made last: same resolution, same
\* configuration
RepeatedCall ==
  /\ optRet.op \in ListProperties
  /\ optRet'.op = optRet.op
  /\ optRet'.config = optRet.config

EntryValues(entries) ==
  Flatten([i \in 1..Len(entries) |-> entries[i].values])

\* the values of the target's own entries in declaration order, then the
\* INTERFACE_<PROP> values of the linked targets in link implementation order
DeclaredValues(prop, config) ==
  EntryValues(OwnEntries(prop, config))
    \o EntryValues(AddPropertyEntries(optTarget.libraries, 1, prop, config))

\* the link implementation items that are targets
TargetItems ==
  {i \in 1..Len(optTarget.libraries) : optTarget.libraries[i].isTarget}

OnePropagatedEntryPerTarget ==
  \A prop \in ListProperties, config \in OptConfigs :
    /\ Len(AddPropertyEntries(optTarget.libraries, 1, prop, config))
         = Cardinality(TargetItems)
    /\ \A k \in 1..Cardinality(TargetItems) :
         Cardinality({i \in TargetItems :
           optTarget.libraries[i].name
             = AddPropertyEntries(optTarget.libraries, 1, prop,
                                  config)[k].targetName}) = 1

Normalized(values) ==
  [i \in 1..Len(values) |->
     IF IsOff(values[i]) THEN values[i] ELSE ConvertToUnixSlashes(values[i])]

IncludeValuesDeclared(config) ==
  Normalized(
    DeclaredValues("INCLUDE_DIRECTORIES", config)
      \o (IF optTarget.APPLE
          THEN EntryValues(FrameworkEntries(optTarget.libraries, 1))
          ELSE <<>>))

\* the values a compile definition list is made of
DefinitionValuesDeclared(config) ==
  DeclaredValues("COMPILE_DEFINITIONS", config)
    \o EntryValues(ConfigDefinitionEntries(config))

\* processIncludeDirectories returned early: at a fatal error, or at a
\* directory of an imported target that does not exist
HasPathError(msgs) ==
  \E k \in 1..Len(msgs) :
    msgs[k].type = "FATAL_ERROR" \/ msgs[k].text = "includes non-existent path"

-----------------------------------------------------------------------------
(* CheckPropertyCompatibility: the properties named in the
   COMPATIBLE_INTERFACE_ lists of the targets on the link line are
   reconciled, and a property named in lists of two kinds is an error.  The
   reconciliation of one property (GetLinkInterfaceDependent<kind>Property)
   is taken by its outcome: it reports an error, which sets the error flag,
   exactly when the values of the property do not agree. *)

strBool == "COMPATIBLE_INTERFACE_BOOL"

strString == "COMPATIBLE_INTERFACE_STRING"

strNumMin == "COMPATIBLE_INTERFACE_NUMBER_MIN"

strNumMax == "COMPATIBLE_INTERFACE_NUMBER_MAX"

\* the four lists in the order CheckPropertyCompatibility treats them
CompatibleLists == <<strBool, strString, strNumMin, strNumMax>>

\* the four lists in the order of std::sort
SortedLists == <<strBool, strNumMax, strNumMin, strString>>

\* the property names in the order of std::set<std::string>
PropertyNames == <<"BUILD_RPATH", "X", "Y">>

\* properties with a file Help/prop_tgt/<name>.rst
BuiltinProperties == {"BUILD_RPATH"}

\* *s.begin() of a set of names that is not empty
Smallest(names) ==
  PropertyNames[CHOOSE i \in 1..Len(PropertyNames) :
    /\ PropertyNames[i] \in names
    /\ \A j \in 1..(i - 1) : PropertyNames[j] \notin names]

\* intersect(s1, s2)
intersect(s1, s2) ==
  IF s1 \cap s2 # {} THEN Smallest(s1 \cap s2) ELSE ""

\* intersect that looks at the first two sets only
intersectFirstPair(s1, s2, s3, s4) == intersect(s1, s2)

\* intersect(s1, s2, s3)
intersect3(s1, s2, s3) ==
  IF intersect(s1, s2) # "" THEN intersect(s1, s2)
  ELSE IF intersect(s1, s3) # "" THEN intersect(s1, s3)
  ELSE intersect(s2, s3)

\* intersect(s1, s2, s3, s4)
intersect4(s1, s2, s3, s4) ==
  IF intersect(s1, s2) # "" THEN intersect(s1, s2)
  ELSE IF intersect(s1, s3) # "" THEN intersect(s1, s3)
  ELSE IF intersect(s1, s4) # "" THEN intersect(s1, s4)
  ELSE intersect3(s2, s3, s4)

\* IssueMessage(cmake::FATAL_ERROR, ...): the message and the error flag
FatalError(st, text, prop, lists) ==
  [st EXCEPT !.messages = Append(@, [text |-> text, prop |-> prop,
                                     lists |-> lists]),
             !.error = TRUE]

\* getLinkInterfaceDependentProperty<PropertyType>(depender, pi, config, t)
getLinkInterfaceDependentProperty(st, pi, propName) ==
  IF <<pi, propName>> \in chkDisagreeing
  THEN FatalError(st, "does not agree", pi, <<propName>>)
  ELSE st

\* if (cmSystemTools::GetErrorOccuredFlag()) return; in
\* checkPropertyConsistency
ReturnIfError(st) == [st EXCEPT !.returned = st.error]

\* if (cmSystemTools::GetErrorOccuredFlag()) return; in
\* CheckPropertyCompatibility
StopIfError(st) == [st EXCEPT !.stopped = st.error]

\* one name of the list in checkPropertyConsistency; st holds the emitted
\* sets, the messages, the error flag and whether the function returned
ConsistencyStep(st, pi, propName) ==
  IF pi \in BuiltinProperties
  THEN [FatalError(st, "This is not allowed.  Only user-defined properties",
                   pi, <<propName>>)
        EXCEPT !.returned = TRUE]
  ELSE IF pi \notin st.emitted[propName]
  THEN ReturnIfError(
         getLinkInterfaceDependentProperty(
           [st EXCEPT !.emitted[propName] = @ \cup {pi}], pi, propName))
  ELSE st

\* checkPropertyConsistency<PropertyType>(depender, dependee, propName,
\* emitted, config, t, 0)
RECURSIVE checkPropertyConsistency(_, _, _, _)
checkPropertyConsistency(st, dependee, propName, i) ==
  IF i > Len(dependee.props[propName]) \/ st.returned
  THEN [st EXCEPT !.returned = FALSE]
  ELSE checkPropertyConsistency(
         ConsistencyStep(st, dependee.props[propName][i], propName),
         dependee, propName, i + 1)

\* the four checks of one item of the link line, each followed by a test of
\* the error flag; st.stopped says CheckPropertyCompatibility returned
RECURSIVE CheckLists(_, _, _)
CheckLists(st, dependee, k) ==
  IF k > Len(CompatibleLists) \/ st.stopped THEN st
  ELSE CheckLists(
         StopIfError(
           checkPropertyConsistency(st, dependee, CompatibleLists[k], 1)),
         dependee, k + 1)

\* the loop over the items of the link line
RECURSIVE CheckItems(_, _, _)
CheckItems(st, deps, li) ==
  IF li > Len(deps) \/ st.stopped THEN st
  ELSE CheckItems(IF deps[li].Target THEN CheckLists(st, deps[li], 1) ELSE st,
                  deps, li + 1)

\* props after std::sort
SortedProps(lists) ==
  SelectSeq(SortedLists, LAMBDA name : name \in lists)

\* the lists whose emitted set holds prop, as pushed on props
ListsHolding(emitted, prop) ==
  {CompatibleLists[k] :
     k \in {j \in 1..Len(CompatibleLists) :
              prop \in emitted[CompatibleLists[j]]}}

\* the property found in two of the emitted sets, "" for none
Mixture(emitted) ==
  intersect4(emitted[strBool], emitted[strString], emitted[strNumMin],
             emitted[strNumMax])

\* the end of CheckPropertyCompatibility: the error for a property that is
\* in two of the emitted sets
ReportMixture(st) ==
  IF st.stopped \/ Mixture(st.emitted) = "" THEN st
  ELSE FatalError(st, "appears in both", Mixture(st.emitted),
                  SortedProps(ListsHolding(st.emitted, Mixture(st.emitted))))

NewCheck(error) ==
  [emitted |-> [name \in {strBool, strString, strNumMin, strNumMax} |-> {}],
   messages |-> <<>>, error |-> error, returned |-> FALSE, stopped |-> FALSE]

\* cmGeneratorTarget::CheckPropertyCompatibility(info, config)
CheckPropertyCompatibility(deps, error) ==
  ReportMixture(CheckItems(NewCheck(error), deps, 1))

\* the items of a link line: targets with their lists, and a plain library
NoLists ==
  [name \in {strBool, strString, strNumMin, strNumMax} |-> <<>>]

LinkLineItem(name, isTarget, props) ==
  [name |-> name, Target |-> isTarget, props |-> props]

ListChoices == {<<>>, <<"X">>, <<"Y", "X">>}

SecondListChoices == {<<>>, <<"X">>}

NoCheck ==
  [done |-> FALSE, errorBefore |-> FALSE, messages |-> <<>>,
   emitted |-> NewCheck(FALSE).emitted]

ChkInit ==
  /\ \E p1 \in [{strBool, strString, strNumMin, strNumMax} -> ListChoices],
        p2 \in [{strBool, strString, strNumMin, strNumMax}
                  -> SecondListChoices],
        plain \in BOOLEAN, builtin \in BOOLEAN :
       chkDeps = (IF plain THEN <<LinkLineItem("m", FALSE, NoLists)>>
                  ELSE <<>>)
                 \o <<LinkLineItem("B", TRUE, p1),
                      LinkLineItem("C", TRUE,
                        IF builtin
                        THEN [p2 EXCEPT ![strString] = <<"BUILD_RPATH">> \o @]
                        ELSE p2)>>
  /\ chkDisagreeing \in {{}, {<<"X", strString>>}, {<<"Y", strNumMin>>}}
  /\ ErrorOccuredFlag = FALSE
  /\ chkRet = NoCheck

\* a fatal error reported anywhere else: cmSystemTools::SetFatalErrorOccured
ChkOtherError ==
  /\ ~ErrorOccuredFlag
  /\ ErrorOccuredFlag' = TRUE
  /\ UNCHANGED <<chkDeps, chkDisagreeing, chkRet>>
  /\ UNCHANGED chkOthers

\* the check of the link line of the target
ChkCheckPropertyCompatibility ==
  /\ ~chkRet.done
  /\ chkRet' = [done |-> TRUE, errorBefore |-> ErrorOccuredFlag,
                messages |->
                  CheckPropertyCompatibility(chkDeps, ErrorOccuredFlag).messages,
                emitted |->
                  CheckPropertyCompatibility(chkDeps, ErrorOccuredFlag).emitted]
  /\ ErrorOccuredFlag' =
       CheckPropertyCompatibility(chkDeps, ErrorOccuredFlag).error
  /\ UNCHANGED <<chkDeps, chkDisagreeing>>
  /\ UNCHANGED chkOthers

ChkNext == ChkOtherError \/ ChkCheckPropertyCompatibility

ChkIdle ==
  /\ chkDeps = <<>>
  /\ chkDisagreeing = {}
  /\ ErrorOccuredFlag = FALSE
  /\ chkRet = NoCheck

(* C16 *)
\* the lists, over all targets of the link line, that name a property
ListsNaming(prop) ==
  {name \in {strBool, strString, strNumMin, strNumMax} :
     \E li \in 1..Len(chkDeps) :
       /\ chkDeps[li].Target
       /\ \E i \in 1..Len(chkDeps[li].props[name]) :
            chkDeps[li].props[name][i] = prop}

\* the properties named in lists of two or more kinds
Mixed == {prop \in Range(PropertyNames) : Cardinality(ListsNaming(prop)) >= 2}

MixtureErrors ==
  {k \in 1..Len(chkRet.messages) : chkRet.messages[k].text = "appears in both"}

\* no error was reported by the check before the one for a mixture
NoOtherError ==
  \A k \in 1..Len(chkRet.messages) : k \in MixtureErrors

\* the error of the check names a mixed property and every list naming it
MixtureReported ==
  \E k \in MixtureErrors :
    /\ chkRet.messages[k].prop \in Mixed
    /\ Range(chkRet.messages[k].lists) = ListsNaming(chkRet.messages[k].prop)
    /\ Len(chkRet.messages[k].lists)
         = Cardinality(ListsNaming(chkRet.messages[k].prop))

\* C16 as stated: when a property is named in lists of two kinds and no
\* other compatibility error was reported first, the check reports the fatal
\* error naming every list that names the property; when none is, it does not
C16_AsStated ==
  chkRet.done
    => /\ Mixed # {} /\ NoOtherError => MixtureReported
       /\ Mixed = {} => MixtureErrors = {}

\* the check ran to its end: no error had been flagged before it began, and
\* it reported none before the one for a mixture
C16_RanToEnd ==
  /\ chkRet.done
  /\ ~chkRet.errorBefore
  /\ NoOtherError

\* C16: the same, provided no fatal error of any kind had been flagged when
\* the check began; with the flag set and a target on the link line the
\* check reports nothing
C16_MixtureIsFatal ==
  chkRet.done
    => /\ Mixed # {} /\ C16_RanToEnd => MixtureReported
       /\ Mixed = {} => MixtureErrors = {}
       /\ Cardinality(MixtureErrors) <= 1
       /\ MixtureErrors # {} => MixtureReported
       /\ chkRet.errorBefore => MixtureErrors = {}

\* a property named in the BOOL list of one target and the STRING list of
\* another: the error names both lists
C16_Witness ==
  /\ chkRet.done
  /\ MixtureReported
  /\ \E prop \in Mixed :
       \A li \in 1..Len(chkDeps) :
         Cardinality({name \in {strBool, strString, strNumMin, strNumMax} :
           prop \in Range(chkDeps[li].props[name])}) <= 1

-----------------------------------------------------------------------------
(* GetLibraryNames: the name, soname and real name of a library.  A name is
   the sequence of the strings it is concatenated from.  The target is a
   static, shared or module library without PREFIX, SUFFIX, OUTPUT_NAME,
   BUNDLE, PDB_NAME and FRAMEWORK_VERSION properties; the soname flag of its
   linker language and the variables of the platform are inputs. *)

NamTargetName == "foo"

\* this->GetProperty(key) of the target whose names are computed
NamProperty(key) == namTarget.props[key]

\* cmSystemTools::IsOn of a property
NamPropertyAsBool(key) == NamProperty(key) = "ON"

\* cmGeneratorTarget::IsFrameworkOnApple
IsFrameworkOnApple ==
  /\ namTarget.type = "SHARED_LIBRARY"
  /\ namTarget.APPLE
  /\ NamPropertyAsBool("FRAMEWORK")

\* cmGeneratorTarget::HasSOName(config)
HasSOName ==
  /\ namTarget.type = "SHARED_LIBRARY"
  /\ ~NamPropertyAsBool("NO_SONAME")
  /\ namTarget.SONameFlag

\* cmGeneratorTarget::GetFrameworkVersion
GetFrameworkVersion ==
  IF NamProperty("VERSION") # Null THEN NamProperty("VERSION") ELSE "A"

\* the platform's CMAKE_<TYPE>_PREFIX and CMAKE_<TYPE>_SUFFIX, or those of
\* the import library
PlatformPrefix(implib) == "lib"

PlatformSuffix(implib) ==
  IF implib THEN namTarget.CMAKE_IMPORT_LIBRARY_SUFFIX
  ELSE IF namTarget.type = "STATIC_LIBRARY" THEN ".a"
  ELSE IF namTarget.APPLE /\ namTarget.type = "SHARED_LIBRARY" THEN ".dylib"
  ELSE ".so"

\* the per-configuration postfix of GetFullNameInternal
ConfigPostfix(config) ==
  IF config # "" /\ NamProperty("DEBUG_POSTFIX") # Null
     /\ ~IsFrameworkOnApple
  THEN <<NamProperty("DEBUG_POSTFIX")>> ELSE <<>>

\* "-" and the SOVERSION on platforms that name shared libraries with it
NameWithVersion(implib) ==
  IF NamProperty("SOVERSION") # Null
     /\ namTarget.type = "SHARED_LIBRARY" /\ ~implib
     /\ namTarget.CMAKE_SHARED_LIBRARY_NAME_WITH_VERSION
  THEN <<"-", NamProperty("SOVERSION")>> ELSE <<>>

\* GetFullNameInternal(config, implib, outPrefix, outBase, outSuffix)
GetFullNameInternal(config, implib) ==
  IF implib /\ namTarget.CMAKE_IMPORT_LIBRARY_SUFFIX = Null
  THEN [prefix |-> <<>>, base |-> <<>>, suffix |-> <<>>]
  ELSE [prefix |-> IF IsFrameworkOnApple
                   THEN <<NamTargetName, ".framework/">>
                   ELSE <<PlatformPrefix(implib
                            /\ namTarget.type # "STATIC_LIBRARY")>>,
        base |-> <<NamTargetName>> \o ConfigPostfix(config)
                   \o NameWithVersion(implib
                        /\ namTarget.type # "STATIC_LIBRARY"),
        suffix |-> IF IsFrameworkOnApple THEN <<>>
                   ELSE <<PlatformSuffix(implib
                            /\ namTarget.type # "STATIC_LIBRARY")>>]

\* prefix+base+suffix
JoinedName(parts) == parts.prefix \o parts.base \o parts.suffix

\* the version put before the platform suffix on every platform
ComputeVersionedNameInserted(parts, name, version) ==
  parts.prefix \o parts.base
    \o (IF version # Null THEN <<".", version>> ELSE <<>>)
    \o parts.suffix

\* ComputeVersionedName(vName, prefix, base, suffix, name, version)
ComputeVersionedName(parts, name, version) ==
  (IF namTarget.APPLE THEN parts.prefix \o parts.base ELSE name)
    \o (IF version # Null THEN <<".", version>> ELSE <<>>)
    \o (IF namTarget.APPLE THEN parts.suffix ELSE <<>>)

\* versioning is supported only with an soname, on a platform with versioned
\* sonames, outside frameworks
Versioned(value) ==
  IF ~HasSOName \/ namTarget.CMAKE_PLATFORM_NO_VERSIONED_SONAME
     \/ IsFrameworkOnApple
  THEN Null ELSE value

\* the version left alone
VersionAsSet(version, other) == version

\* if(version && !soversion) soversion = version, and the reverse
VersionOrOther(version, other) ==
  IF version = Null /\ other # Null THEN other ELSE version

\* the realName and soName of a framework
FrameworkName(parts) ==
  parts.prefix
    \o (IF ~namTarget.PlatformIsAppleIos
        THEN <<"Versions/", GetFrameworkVersion, "/">> ELSE <<>>)
    \o parts.base

\* GetPDBName(config)
GetPDBName(config) ==
  GetFullNameInternal(config, FALSE).prefix
    \o GetFullNameInternal(config, FALSE).base \o <<".pdb">>

NoNames ==
  [op |-> "none", config |-> "", name |-> <<>>, soName |-> <<>>,
   realName |-> <<>>, impName |-> <<>>, pdbName |-> <<>>,
   messages |-> <<>>, call |-> 0]

\* GetLibraryNames(name, soName, realName, impName, pdbName, config) with
\* empty strings passed in
GetLibraryNames(config, version, soversion, parts) ==
  IF namTarget.imported
  THEN [NoNames EXCEPT !.op = "GetLibraryNames", !.config = config,
          !.messages = <<"GetLibraryNames called on imported target: ">>]
  ELSE [op |-> "GetLibraryNames", config |-> config,
        name |-> JoinedName(parts),
        soName |-> IF IsFrameworkOnApple THEN FrameworkName(parts)
                   ELSE ComputeVersionedName(parts, JoinedName(parts),
                                             soversion),
        realName |-> IF IsFrameworkOnApple THEN FrameworkName(parts)
                     ELSE ComputeVersionedName(parts, JoinedName(parts),
                                               version),
        impName |-> IF namTarget.type \in {"SHARED_LIBRARY", "MODULE_LIBRARY"}
                    THEN JoinedName(GetFullNameInternal(config, TRUE))
                    ELSE <<>>,
        pdbName |-> GetPDBName(config),
        messages |-> <<>>, call |-> 0]

\* the calls made of one target
MaxNameCalls == 2

NamInit ==
  /\ \E type \in {"STATIC_LIBRARY", "SHARED_LIBRARY", "MODULE_LIBRARY"},
        imported \in BOOLEAN, version \in {Null, "1.2"},
        soversion \in {Null, "1"}, noSoname \in {Null, "ON"},
        framework \in {Null, "ON"}, postfix \in {Null, "d"},
        apple \in BOOLEAN, flag \in BOOLEAN, noVersioned \in BOOLEAN,
        withVersion \in BOOLEAN, importSuffix \in {Null, ".dll.a"} :
       namTarget =
         [type |-> type, imported |-> imported,
          props |-> [VERSION |-> version, SOVERSION |-> soversion,
                     NO_SONAME |-> noSoname, FRAMEWORK |-> framework,
                     DEBUG_POSTFIX |-> postfix],
          APPLE |-> apple, PlatformIsAppleIos |-> FALSE,
          SONameFlag |-> flag,
          CMAKE_PLATFORM_NO_VERSIONED_SONAME |-> noVersioned,
          CMAKE_SHARED_LIBRARY_NAME_WITH_VERSION |-> withVersion,
          CMAKE_IMPORT_LIBRARY_SUFFIX |-> importSuffix]
  /\ namRet = NoNames

NamGetLibraryNames(config) ==
  /\ namRet.call < MaxNameCalls
  /\ namRet' =
       [GetLibraryNames(config,
          VersionOrOther(Versioned(NamProperty("VERSION")),
                         Versioned(NamProperty("SOVERSION"))),
          VersionOrOther(Versioned(NamProperty("SOVERSION")),
                         Versioned(NamProperty("VERSION"))),
          GetFullNameInternal(config, FALSE))
        EXCEPT !.call = namRet.call + 1]
  /\ UNCHANGED namTarget
  /\ UNCHANGED namOthers

NamNext == \E config \in {"", "Debug"} : NamGetLibraryNames(config)

NamIdle ==
  /\ namTarget =
       [type |-> "STATIC_LIBRARY", imported |-> FALSE,
        props |-> [VERSION |-> Null, SOVERSION |-> Null, NO_SONAME |-> Null,
                   FRAMEWORK |-> Null, DEBUG_POSTFIX |-> Null],
        APPLE |-> FALSE, PlatformIsAppleIos |-> FALSE, SONameFlag |-> FALSE,
        CMAKE_PLATFORM_NO_VERSIONED_SONAME |-> FALSE,
        CMAKE_SHARED_LIBRARY_NAME_WITH_VERSION |-> FALSE,
        CMAKE_IMPORT_LIBRARY_SUFFIX |-> Null]
  /\ namRet = NoNames

(* C17 *)
\* a non-imported, non-framework shared library on a platform with an soname
\* flag and versioned sonames, with exactly one of VERSION and SOVERSION set
OneVersionSet ==
  /\ ~namTarget.imported
  /\ namTarget.type = "SHARED_LIBRARY"
  /\ ~IsFrameworkOnApple
  /\ namTarget.SONameFlag
  /\ ~namTarget.CMAKE_PLATFORM_NO_VERSIONED_SONAME
  /\ (NamProperty("VERSION") = Null) # (NamProperty("SOVERSION") = Null)

\* the one of VERSION and SOVERSION that is set
TheVersion ==
  IF NamProperty("VERSION") # Null THEN NamProperty("VERSION")
  ELSE NamProperty("SOVERSION")

\* the name holds "." followed by the version
HasVersion(name, version) ==
  \E i \in 1..(Len(name) - 1) : name[i] = "." /\ name[i + 1] = version

\* the names of two calls in a row for the same configuration
SameNamesAgain ==
  namRet.op = "GetLibraryNames" /\ namRet'.config = namRet.config
    => /\ namRet'.name = namRet.name
       /\ namRet'.soName = namRet.soName
       /\ namRet'.realName = namRet.realName
       /\ namRet'.impName = namRet.impName
       /\ namRet'.pdbName = namRet.pdbName

\* C17 as stated: with one of VERSION and SOVERSION set, the soname and the
\* real name are equal, both hold "." and that version, and a repeated call
\* returns the same names
C17_AsStated ==
  [][OneVersionSet
       => /\ namRet'.soName = namRet'.realName
          /\ HasVersion(namRet'.soName, TheVersion)
          /\ HasVersion(namRet'.realName, TheVersion)
          /\ SameNamesAgain]_vars

\* C17: the same for a library whose NO_SONAME property is not on; with
\* NO_SONAME the soname and the real name are the plain name
C17_OneVersionForBoth ==
  [][OneVersionSet
       => /\ namRet'.soName = namRet'.realName
          /\ SameNamesAgain
          /\ ~NamPropertyAsBool("NO_SONAME")
               => /\ HasVersion(namRet'.soName, TheVersion)
                  /\ HasVersion(namRet'.realName, TheVersion)
          /\ NamPropertyAsBool("NO_SONAME")
               => /\ namRet'.soName = namRet'.name
                  /\ ~HasVersion(namRet'.soName, TheVersion)]_vars

\* the second call for a library with SOVERSION only
C17_Witness ==
  /\ OneVersionSet
  /\ ~NamPropertyAsBool("NO_SONAME")
  /\ NamProperty("VERSION") = Null
  /\ namRet.call = 2
  /\ namRet.config = "Debug"
  /\ HasVersion(namRet.realName, "1")
  /\ namRet.soName = namRet.realName

-----------------------------------------------------------------------------
(* TraceDependencies: the source files that generate the sources of a target
   are found through a work queue and added to the target.  The constructor
   of cmTargetTraceDependencies, one pass of the loop of Trace and the end of
   Trace are the steps.  What a source file depends on, the source file
   whose rule has a given output (cmMakefile::GetSourceFileWithOutput) and
   the targets of the project are inputs. *)

NoSourceFile == ""

\* the source files of the project, by full path
TraceFiles == {"/a.c", "/b.c", "/g.rule", "/h.rule"}

\* the names a dependency may have
TraceNames ==
  TraceFiles \cup {"/x.h", "/d/../x.h", "u", "/bin/u", "/else/u"}

\* cmSystemTools::FileIsFullPath
NameIsFullPath(name) == name # "u"

\* cmSystemTools::CollapseFullPath
CollapseFullPath(name) == IF name = "/d/../x.h" THEN "/x.h" ELSE name

\* cmSystemTools::GetFilenameName, without a last extension .exe
GetFilenameName(name) ==
  IF name \in {"u", "/bin/u", "/else/u"} THEN "u"
  ELSE IF name = "/d/../x.h" THEN "x.h"
  ELSE IF name = "/x.h" THEN "x.h"
  ELSE IF name = "/a.c" THEN "a.c"
  ELSE IF name = "/b.c" THEN "b.c"
  ELSE IF name = "/g.rule" THEN "g.rule"
  ELSE "h.rule"

\* cmSystemTools::GetFilenamePath
GetFilenamePath(name) ==
  IF name = "/bin/u" THEN "/bin"
  ELSE IF name = "/else/u" THEN "/else"
  ELSE IF name = "/d/../x.h" THEN "/d/.."
  ELSE IF name = "u" THEN ""
  ELSE "/"

\* the executable target u of the project, built in /bin
UtilityTargets == {"u"}

UtilityLocation == "/bin/u"

\* cmMakefile::GetSourceFileWithOutput(name)
GetSourceFileWithOutput(name) == trcGraph.producer[name]

\* a tracer as constructed: nothing queued, nothing looked up
NewTracer ==
  [SourceQueue |-> <<>>, SourcesQueued |-> {}, NewSources |-> <<>>,
   NameMap |-> [n \in {} |-> NoSourceFile],
   SourceDepends |-> SourceDepends, Utilities |-> Utilities,
   CurrentEntry |-> NoSourceFile, emitted |-> {}]

\* the members of the tracer and the parts of the target it changes, as one
\* record
Tracer ==
  [SourceQueue |-> SourceQueue, SourcesQueued |-> SourcesQueued,
   NewSources |-> NewSources, NameMap |-> NameMap,
   SourceDepends |-> SourceDepends, Utilities |-> Utilities,
   CurrentEntry |-> NoSourceFile, emitted |-> {}]

\* the one element of a set of one element: the value of an expression
\* worked out once
Once(S) == CHOOSE r \in S : TRUE

\* SourcesQueued.insert(sf), SourceQueue.push(sf), NewSources.push_back(sf)
Queued(tr, sf) ==
  [tr EXCEPT !.SourcesQueued = @ \cup {sf},
             !.SourceQueue = Append(@, sf),
             !.NewSources = Append(@, sf)]

\* QueueSource that queues whatever it is given
QueueSourceAgain(tr, sf) == Once({Queued(t, sf) : t \in {tr}})

\* cmTargetTraceDependencies::QueueSource(sf)
QueueSource(tr, sf) ==
  Once({IF sf \in t.SourcesQueued THEN t ELSE Queued(t, sf) : t \in {tr}})

\* NameMap.find(name), after an insert for a name not yet looked up
FoundName(tr, name) ==
  IF name \in DOMAIN tr.NameMap THEN tr.NameMap
  ELSE [n \in DOMAIN tr.NameMap \cup {name} |->
          IF n = name THEN GetSourceFileWithOutput(name) ELSE tr.NameMap[n]]

\* CurrentEntry->Depends.push_back(sf)
RecordDepends(tr, sf) ==
  Once({IF t.CurrentEntry # NoSourceFile
        THEN [t EXCEPT !.SourceDepends[t.CurrentEntry] = Append(@, sf)]
        ELSE t : t \in {tr}})

\* FollowName after the lookup in NameMap: a source file that was found is
\* recorded as a dependency of the current entry and queued
FollowFound(tr, sf) ==
  IF sf # NoSourceFile THEN QueueSource(RecordDepends(tr, sf), sf) ELSE tr

\* cmTargetTraceDependencies::FollowName(name)
FollowName(tr, name) ==
  Once({FollowFound(m, m.NameMap[name]) :
          m \in {[t EXCEPT !.NameMap = FoundName(t, name)] : t \in {tr}}})

\* cmTargetTraceDependencies::FollowNames(names)
RECURSIVE FollowNames(_, _, _)
FollowNames(tr, names, i) ==
  IF i > Len(names) THEN tr
  ELSE FollowNames(FollowName(tr, names[i]), names, i + 1)

\* cmTargetTraceDependencies::IsUtility(dep): whether the dependency names a
\* target of the project
IsUtility(dep) ==
  /\ GetFilenameName(dep) \in UtilityTargets
  /\ NameIsFullPath(dep)
       => CollapseFullPath(GetFilenamePath(dep))
            = CollapseFullPath(GetFilenamePath(UtilityLocation))

\* Target->AddUtility(util) in IsUtility
AddUtility(tr, dep) ==
  [tr EXCEPT !.Utilities = @ \cup {GetFilenameName(dep)}]

\* cmTargetTraceDependencies::FollowCommandDepends(cc, config, emitted)
RECURSIVE FollowCommandDepends(_, _, _)
FollowCommandDepends(tr, depends, i) ==
  IF i > Len(depends) THEN tr
  ELSE FollowCommandDepends(
         Once({IF depends[i] \in t.emitted THEN t
               ELSE IF IsUtility(depends[i])
               THEN AddUtility([t EXCEPT !.emitted = @ \cup {depends[i]}],
                               depends[i])
               ELSE FollowName([t EXCEPT !.emitted = @ \cup {depends[i]}],
                               depends[i]) : t \in {tr}}),
         depends, i + 1)

\* the loop over the configurations in CheckCustomCommand
RECURSIVE FollowConfigurations(_, _, _)
FollowConfigurations(tr, cc, ci) ==
  IF ci > Len(trcGraph.configs) THEN tr
  ELSE FollowConfigurations(
         FollowCommandDepends(tr, cc.depends[trcGraph.configs[ci]], 1),
         cc, ci + 1)

\* cmTargetTraceDependencies::CheckCustomCommand(cc): the targets named by
\* the command lines become utilities, the dependencies are followed
CheckCustomCommand(tr, cc) ==
  Once({FollowConfigurations(t, cc, 1) :
          t \in {[tr EXCEPT !.Utilities = @ \cup cc.targets,
                            !.emitted = {}]}})

\* cmTargetTraceDependencies::CheckCustomCommands(commands)
RECURSIVE CheckCustomCommands(_, _, _)
CheckCustomCommands(tr, commands, i) ==
  IF i > Len(commands) THEN tr
  ELSE CheckCustomCommands(CheckCustomCommand(tr, commands[i]), commands,
                           i + 1)

\* the OBJECT_DEPENDS of a source file, full paths collapsed
ObjectDepends(sf) ==
  [i \in 1..Len(trcGraph.OBJECT_DEPENDS[sf]) |->
     IF NameIsFullPath(trcGraph.OBJECT_DEPENDS[sf][i])
     THEN CollapseFullPath(trcGraph.OBJECT_DEPENDS[sf][i])
     ELSE trcGraph.OBJECT_DEPENDS[sf][i]]

\* a loop of Trace that leaves the custom command alone
SkipCustomCommand(tr, sf) == tr

\* sf->GetCustomCommand() of the body of the loop of Trace
FollowCustomCommand(tr, sf) ==
  IF trcGraph.CustomCommand[sf].exists
  THEN CheckCustomCommand(tr, trcGraph.CustomCommand[sf])
  ELSE tr

\* the body of the loop of Trace for the source file at the front of the
\* queue
TraceSource(tr, sf) ==
  FollowCustomCommand(
    FollowNames(
      FollowName(
        FollowNames(
          [tr EXCEPT !.SourceQueue = Tail(@), !.CurrentEntry = sf,
                     !.SourceDepends =
                       IF sf \in DOMAIN @ THEN @
                       ELSE [f \in DOMAIN @ \cup {sf} |->
                               IF f = sf THEN <<>> ELSE @[f]]],
          ObjectDepends(sf), 1),
        sf),
      trcGraph.Depends[sf], 1),
    sf)

\* the loop of the constructor over the sources of one configuration; st
\* holds the tracer, the emitted set and whether the constructor returned
RECURSIVE QueueConfiguration(_, _, _)
QueueConfiguration(st, sources, si) ==
  IF si > Len(sources) THEN st
  ELSE Once({IF s.returned THEN s
             ELSE QueueConfiguration(
                    IF sources[si] \in trcGraph.loop
                    THEN [s EXCEPT !.returned = TRUE,
                            !.messages = Append(@, "Evaluation output file depends on the sources of a target it is used in")]
                    ELSE IF sources[si] \notin s.emitted
                            /\ sources[si] \notin s.tr.SourcesQueued
                    THEN [s EXCEPT !.emitted = @ \cup {sources[si]},
                                   !.tr.SourcesQueued = @ \cup {sources[si]},
                                   !.tr.SourceQueue = Append(@, sources[si])]
                    ELSE [s EXCEPT !.emitted = @ \cup {sources[si]}],
                    sources, si + 1) : s \in {st}})

\* the loop of the constructor over the configurations
RECURSIVE QueueConfigurations(_, _)
QueueConfigurations(st, ci) ==
  IF ci > Len(trcGraph.configs) THEN st
  ELSE Once({IF s.returned THEN s
             ELSE QueueConfigurations(
                    QueueConfiguration(
                      s, trcGraph.sources[trcGraph.configs[ci]], 1),
                    ci + 1) : s \in {st}})

\* the sources the constructor queues
QueuedSources ==
  IF trcGraph.type = "INTERFACE_LIBRARY"
  THEN [tr |-> NewTracer, emitted |-> {}, returned |-> FALSE,
        messages |-> <<>>]
  ELSE QueueConfigurations(
         [tr |-> NewTracer, emitted |-> {}, returned |-> FALSE,
          messages |-> <<>>], 1)

\* cmTargetTraceDependencies::cmTargetTraceDependencies(target)
Constructed(st) ==
  Once({[s EXCEPT !.tr = IF s.returned THEN s.tr
                         ELSE CheckCustomCommands(s.tr, trcGraph.commands, 1)] :
          s \in {st}})

\* the steps of Trace a tracer may take
MaxTraceSteps == 6

TraceConfigs == {"", "Debug", "Release"}

NoCommand ==
  [exists |-> FALSE, targets |-> {}, depends |-> [c \in TraceConfigs |-> <<>>]]

CustomCommand(targets, always, debugOnly) ==
  [exists |-> TRUE, targets |-> targets,
   depends |-> [c \in TraceConfigs |->
                  always \o (IF c = "Debug" THEN debugOnly ELSE <<>>)]]

\* who generates what: nobody; a rule each for /a.c and /x.h; the same with
\* the two rule files generated by each other; /a.c generating the header
\* it depends on
ProducerChoices ==
  { [n \in TraceNames |-> NoSourceFile],
    [n \in TraceNames |->
       IF n = "/a.c" THEN "/g.rule" ELSE IF n = "/x.h" THEN "/h.rule"
       ELSE NoSourceFile],
    [n \in TraceNames |->
       IF n = "/a.c" THEN "/g.rule" ELSE IF n = "/x.h" THEN "/h.rule"
       ELSE IF n = "/g.rule" THEN "/h.rule"
       ELSE IF n = "/h.rule" THEN "/g.rule" ELSE NoSourceFile],
    [n \in TraceNames |->
       IF n = "/x.h" THEN "/a.c" ELSE IF n = "/b.c" THEN "/g.rule"
       ELSE NoSourceFile] }

SourceChoices == {<<"/a.c">>, <<"/a.c", "/b.c">>, <<"/b.c", "/a.c", "/b.c">>}

Graph(type, configs, base, debugOnly, loop, producer, objDeps, deps, g, h, commands) ==
  [type |-> type, configs |-> configs,
   sources |-> [c \in TraceConfigs |->
                  base \o (IF c = "Debug" THEN debugOnly ELSE <<>>)],
   loop |-> loop, producer |-> producer,
   OBJECT_DEPENDS |-> [f \in TraceFiles |->
                         IF f = "/b.c" THEN objDeps ELSE <<>>],
   Depends |-> [f \in TraceFiles |-> IF f = "/a.c" THEN deps ELSE <<>>],
   CustomCommand |-> [f \in TraceFiles |->
                        IF f = "/g.rule" THEN g
                        ELSE IF f = "/h.rule" THEN h ELSE NoCommand],
   commands |-> commands]

TrcInit ==
  /\ \E type \in {"EXECUTABLE", "INTERFACE_LIBRARY", "GLOBAL_TARGET"},
        configs \in {<<"">>, <<"Debug", "Release">>},
        producer \in ProducerChoices,
        commands \in {<<>>, <<CustomCommand({}, <<"/x.h">>, <<>>)>>} :
     \E base \in IF type = "EXECUTABLE" THEN SourceChoices ELSE {<<>>},
        debugOnly \in IF type = "EXECUTABLE" THEN {<<>>, <<"/b.c">>}
                      ELSE {<<>>},
        loop \in IF type = "EXECUTABLE" THEN {{}, {"/a.c"}} ELSE {{}},
        objDeps \in {<<>>, <<"/d/../x.h">>},
        deps \in {<<>>, <<"/x.h", "/x.h">>},
        g \in {NoCommand,
               CustomCommand({"u"}, <<"/x.h", "u", "/else/u">>, <<"/b.c">>)},
        h \in {NoCommand, CustomCommand({}, <<"/a.c", "/bin/u">>, <<>>)} :
       trcGraph = Graph(type, configs, base, debugOnly, loop, producer,
                        objDeps, deps, g, h, commands)
  /\ trcPhase = "new"
  /\ SourceQueue = <<>>
  /\ SourcesQueued = {}
  /\ NewSources = <<>>
  /\ NameMap = [n \in {} |-> NoSourceFile]
  /\ SourceDepends = [f \in {} |-> <<>>]
  /\ Utilities = {}
  /\ tracedEntries = <<>>
  /\ trcProcessed = <<>>
  /\ trcMessages = <<>>

\* the tracer's members and the target's parts after a step
TracerBecomes(tr) ==
  /\ SourceQueue' = tr.SourceQueue
  /\ SourcesQueued' = tr.SourcesQueued
  /\ NewSources' = tr.NewSources
  /\ NameMap' = tr.NameMap
  /\ SourceDepends' = tr.SourceDepends
  /\ Utilities' = tr.Utilities

\* cmGeneratorTarget::TraceDependencies up to the call of Trace: nothing for
\* a GLOBAL_TARGET, else the tracer is constructed
TraceDependencies ==
  /\ trcPhase = "new"
  /\ IF trcGraph.type = "GLOBAL_TARGET"
     THEN /\ trcPhase' = "done"
          /\ UNCHANGED <<SourceQueue, SourcesQueued, NewSources, NameMap,
                         SourceDepends, Utilities, trcMessages>>
     ELSE /\ trcPhase' = "tracing"
          /\ \E st \in {Constructed(QueuedSources)} :
               /\ TracerBecomes(st.tr)
               /\ trcMessages' = st.messages
  /\ UNCHANGED <<trcGraph, tracedEntries, trcProcessed>>
  /\ UNCHANGED trcOthers

\* one pass of the loop of cmTargetTraceDependencies::Trace
Trace ==
  /\ trcPhase = "tracing"
  /\ SourceQueue # <<>>
  /\ Len(trcProcessed) < MaxTraceSteps
  /\ \E tr \in {TraceSource(Tracer, Head(SourceQueue))} : TracerBecomes(tr)
  /\ trcProcessed' = Append(trcProcessed, Head(SourceQueue))
  /\ UNCHANGED <<trcGraph, trcPhase, tracedEntries, trcMessages>>
  /\ UNCHANGED trcOthers

\* the end of Trace: AddTracedSources(NewSources)
TraceEnd ==
  /\ trcPhase = "tracing"
  /\ SourceQueue = <<>>
  /\ trcPhase' = "done"
  /\ tracedEntries' = IF NewSources # <<>>
                      THEN Append(tracedEntries, NewSources)
                      ELSE tracedEntries
  /\ UNCHANGED <<trcGraph, SourceQueue, SourcesQueued, NewSources, NameMap,
                 SourceDepends, Utilities, trcProcessed, trcMessages>>
  /\ UNCHANGED trcOthers

TrcNext == TraceDependencies \/ Trace \/ TraceEnd

TrcIdle ==
  /\ trcGraph = Graph("GLOBAL_TARGET", <<"">>, <<>>, <<>>, {},
                      [n \in TraceNames |-> NoSourceFile], <<>>, <<>>,
                      NoCommand, NoCommand, <<>>)
  /\ trcPhase = "done"
  /\ SourceQueue = <<>>
  /\ SourcesQueued = {}
  /\ NewSources = <<>>
  /\ NameMap = [n \in {} |-> NoSourceFile]
  /\ SourceDepends = [f \in {} |-> <<>>]
  /\ Utilities = {}
  /\ tracedEntries = <<>>
  /\ trcProcessed = <<>>
  /\ trcMessages = <<>>

(* C18 *)
\* the source files the constructor queues from the sources of the target
DeclaredQueued == QueuedSources.tr.SourcesQueued

\* no source file is queued or taken from the queue twice, and the new
\* sources are the queued source files that the constructor did not queue,
\* each once
QueuedOnce ==
  /\ NoDuplicates(trcProcessed)
  /\ NoDuplicates(SourceQueue)
  /\ Range(trcProcessed) \cap Range(SourceQueue) = {}
  /\ NoDuplicates(NewSources)
  /\ trcPhase # "new"
       => /\ Range(trcProcessed) \cup Range(SourceQueue) = SourcesQueued
          /\ Range(NewSources) = SourcesQueued \ DeclaredQueued

\* the new sources reach the target in one step, taken with an empty queue
AddedAtTheEnd ==
  tracedEntries' # tracedEntries
    => /\ SourceQueue = <<>>
       /\ trcPhase' = "done"
       /\ tracedEntries' = Append(tracedEntries, NewSources)

\* C18: TraceDependencies terminates; every source file is queued and
\* processed at most once, every newly found source is recorded once in
\* NewSources, and the new sources are added to the target only when the
\* queue is empty
C18_Terminates ==
  /\ <>(trcPhase = "done")
  /\ []QueuedOnce
  /\ [][AddedAtTheEnd]_vars

\* two rule files that generate each other were both found and processed
C18_Witness ==
  /\ trcPhase = "done"
  /\ trcGraph.producer["/g.rule"] = "/h.rule"
  /\ trcGraph.producer["/h.rule"] = "/g.rule"
  /\ {"/g.rule", "/h.rule"} \subseteq Range(trcProcessed)
  /\ tracedEntries = <<NewSources>>
  /\ {"/g.rule", "/h.rule"} \subseteq Range(NewSources)

(* C19 *)
\* the sources of the target: declared for some configuration, or traced
TargetSources ==
  UNION {Range(trcGraph.sources[trcGraph.configs[ci]]) :
           ci \in 1..Len(trcGraph.configs)}
    \cup Range(Flatten(tracedEntries))

\* the names a source file depends on
DependencyNames(f) ==
  Range(trcGraph.OBJECT_DEPENDS[f]) \cup Range(ObjectDepends(f)) \cup {f}
    \cup Range(trcGraph.Depends[f])
    \cup {d \in UNION {Range(trcGraph.CustomCommand[f].depends[
                                trcGraph.configs[ci]]) :
                          ci \in 1..Len(trcGraph.configs)} :
            ~IsUtility(d)}

\* the producers of what the source files of a set depend on are sources
ClosedOver(files) ==
  \A f \in files : \A d \in DependencyNames(f) :
    GetSourceFileWithOutput(d) # NoSourceFile
      => GetSourceFileWithOutput(d) \in TargetSources

\* C19 as stated: when TraceDependencies has finished, the producer of
\* every dependency of every source of the target is a source of the target
C19_AsStated == trcPhase = "done" => ClosedOver(TargetSources)

\* C19: the same when the constructor reported no dependency loop; after
\* that error the closure holds for the source files that were processed
C19_Closed ==
  trcPhase = "done"
    => /\ trcMessages = <<>> => ClosedOver(TargetSources)
       /\ ClosedOver(Range(trcProcessed))
       /\ trcMessages = <<>> /\ trcGraph.type # "GLOBAL_TARGET"
            => Range(trcProcessed) = TargetSources

\* a source generated by a rule whose command depends on a generated header
C19_Witness ==
  /\ trcPhase = "done"
  /\ trcMessages = <<>>
  /\ "/g.rule" \in Range(NewSources)
  /\ "/h.rule" \in Range(NewSources)
  /\ trcGraph.producer["/g.rule"] = NoSourceFile
  /\ trcGraph.CustomCommand["/g.rule"].exists
  /\ "/h.rule" \notin Range(trcGraph.sources[""])
  /\ trcGraph.Depends["/a.c"] = <<>>
  /\ trcGraph.commands = <<>>
  /\ trcGraph.OBJECT_DEPENDS["/b.c"] = <<>>

(* C20 *)
\* C20: an interface that GetLinkInterface returns for the library is fully
\* computed, whatever calls were made before: the libraries step and the
\* full step have both been applied to the entry returned
C20_ReturnedInterfaceAllDone ==
  lnkRet.op = "GetLinkInterface" /\ ~lnkRet.isNull
  /\ ~IsImported(lnkRet.target)
    => lnkRet.iface.LibrariesDone /\ lnkRet.iface.AllDone

(* C21 *)
\* the two maps from head to link interface of a target
InterfaceMaps(t) ==
  {LinkInterfaceMap[t], LinkInterfaceUsageRequirementsOnlyMap[t]}

\* some entry of the map was computed without a head-sensitive condition
HeadIndependent(hm) ==
  \E head \in DOMAIN hm : ~hm[head].HadHeadSensitiveCondition

\* a map with a head-independent entry holds that entry only
OneEntryServesAll ==
  \A t \in DOMAIN lnkTargets : \A hm \in InterfaceMaps(t) :
    HeadIndependent(hm) => Cardinality(DOMAIN hm) = 1

\* the map the last call looked the interface up in, before and after it
MapOfCall(maps, uses) ==
  IF lnkRet'.usage_requirements_only THEN uses[lnkRet'.target]
  ELSE maps[lnkRet'.target]

\* a call that finds a head-independent entry returns that entry and leaves
\* the map as it is
ServedByTheEntry(hm, hmAfter) ==
  HeadIndependent(hm)
    => /\ hmAfter = hm
       /\ ~lnkRet'.isNull
       /\ DOMAIN hm = {lnkRet'.entry}
       /\ lnkRet'.iface = hm[lnkRet'.entry]

\* no step adds an entry to a map with a head-independent entry
NoEntryAdded ==
  \A t \in DOMAIN lnkTargets :
    /\ HeadIndependent(LinkInterfaceMap[t])
         => LinkInterfaceMap'[t] = LinkInterfaceMap[t]
    /\ HeadIndependent(LinkInterfaceUsageRequirementsOnlyMap[t])
         => LinkInterfaceUsageRequirementsOnlyMap'[t]
              = LinkInterfaceUsageRequirementsOnlyMap[t]

InterfaceCallServed ==
  lnkRet'.op \in {"GetLinkInterface", "GetLinkInterfaceLibraries"}
    => ServedByTheEntry(
         MapOfCall(LinkInterfaceMap, LinkInterfaceUsageRequirementsOnlyMap),
         MapOfCall(LinkInterfaceMap', LinkInterfaceUsageRequirementsOnlyMap'))

\* C21: once a link interface of a target was computed without a
\* head-sensitive condition, the map from head to interface holds that one
\* entry in every later state, and a request from any head returns that
\* entry and creates no other
C21_OneEntryForAllHeads ==
  /\ []OneEntryServesAll
  /\ [][NoEntryAdded /\ InterfaceCallServed]_vars

\* the entry of an imported library computed for head A was returned to
\* head B
C21_Witness ==
  /\ lnkCalls = 2
  /\ lnkRet.op = "GetLinkInterface"
  /\ lnkRet.head = "B" /\ lnkRet.entry = "A" /\ ~lnkRet.isNull
  /\ DOMAIN LinkInterfaceMap["L"] = {"A"}
  /\ lnkRet.iface.Libraries # <<>>
  /\ IsImported("L")

(* C22 *)
\* what the libraries step writes into an entry
LibrariesPart(iface) ==
  <<iface.Exists, iface.ExplicitLibraries, iface.Libraries,
    iface.HadHeadSensitiveCondition>>

\* an entry and what a step made of it: the flags stay set, the result of
\* the libraries step stays once LibrariesDone is set, the whole entry stays
\* once AllDone is set
MovesForward(before, after) ==
  /\ before.LibrariesDone => after.LibrariesDone
  /\ before.AllDone => after.AllDone
  /\ before.LibrariesDone => LibrariesPart(after) = LibrariesPart(before)
  /\ before.AllDone => after = before

EntriesMoveForward(hm, hmAfter) ==
  \A head \in DOMAIN hm :
    head \in DOMAIN hmAfter /\ MovesForward(hm[head], hmAfter[head])

\* every entry of every map moves forward in a step
EveryEntryMovesForward ==
  \A t \in DOMAIN lnkTargets :
    /\ EntriesMoveForward(LinkInterfaceMap[t], LinkInterfaceMap'[t])
    /\ EntriesMoveForward(LinkInterfaceUsageRequirementsOnlyMap[t],
                          LinkInterfaceUsageRequirementsOnlyMap'[t])

\* an entry of a target that is not imported: the full step was taken after
\* the libraries step, and did nothing for an interface that does not exist
FullStepInOrder(iface) ==
  /\ iface.AllDone => iface.LibrariesDone
  /\ ~iface.AllDone \/ ~iface.Exists
       => iface.SharedDeps = <<>> /\ ~iface.ImplementationIsInterface

EveryFullStepInOrder ==
  \A t \in DOMAIN lnkTargets :
    ~IsImported(t)
      => \A hm \in InterfaceMaps(t) : \A head \in DOMAIN hm :
           FullStepInOrder(hm[head])

\* C22: an entry of a map from head to link interface only moves forward
\* from not computed to LibrariesDone to AllDone: no flag is reset, the
\* libraries step and the full step are each taken once for an entry, and
\* GetLinkInterface takes the full step after the libraries step and only
\* for an interface that exists
C22_EntriesMoveForward ==
  /\ []EveryFullStepInOrder
  /\ [][EveryEntryMovesForward]_vars

\* one entry of the library fully computed and another with the libraries
\* step only
C22_Witness ==
  /\ DOMAIN LinkInterfaceMap["L"] = {"A", "B"}
  /\ LinkInterfaceMap["L"]["A"].AllDone
  /\ LinkInterfaceMap["L"]["A"].Exists
  /\ LinkInterfaceMap["L"]["A"].Libraries # <<>>
  /\ LinkInterfaceMap["L"]["B"].LibrariesDone
  /\ ~LinkInterfaceMap["L"]["B"].AllDone
  /\ ~IsImported("L")

(* C23 *)
\* C23: whenever LinkImplementationLanguageIsContextDependent is false the
\* map of source files is not empty, and no call of GetSourceFiles has read
\* the first element of an empty map, whatever calls of AddSource,
\* AddTracedSources and the two GetSourceFiles overloads were made
C23_ShortcutReadsAnEntry ==
  /\ ~LinkImplementationLanguageIsContextDependent
       => DOMAIN SourceFilesMap # {}
  /\ ~srcRet.undefined

(* C24 *)
\* the list an evaluation of the source entries for a configuration gives
\* without the map of source files
UncachedSourceFiles(config) ==
  EmitSourceFiles(IF ConfigureDoneCMP0026
                  THEN ResolveSourceFiles(config, FALSE, FALSE).files
                  ELSE RawSourceItems(SourceEntries), <<>>)

\* C24: the list the caching GetSourceFiles returns for a configuration is
\* the list an uncached evaluation of the source entries for that
\* configuration gives, in whatever order the configurations are asked for,
\* also when the list cached for another configuration is returned
C24_CachedIsUncached ==
  srcRet.op = "cached" => srcRet.files = UncachedSourceFiles(srcRet.config)

(* C25 *)
\* C25: GetOutputName issues 'OUTPUT_NAME depends on itself' only when it is
\* entered for a target and key whose computation is in progress; a call
\* from outside any evaluation for a key whose computation has finished
\* returns the cached name without the message, also when that name is the
\* empty string
C25_ErrorOnlyWhileInProgress ==
  /\ [](outLast.kind # "recursive")
  /\ [][outMessages' # outMessages => OutReentering]_vars

(* C28 *)
\* the sources a query reported as offenders
Offenders(t) ==
  UNION {Range(clsRet.by[t].messages[i].files) :
           i \in DOMAIN clsRet.by[t].messages}

\* the sources the queries classified into one of the given categories
ClassifiedAs(tags) == UNION {Category(t) : t \in tags}

\* C28 as stated: every query on an object library records as offenders the
\* sources classified as external objects, def files, idl files and
\* certificates, and no other source
C28_AsStated ==
  clsRet.done /\ clsTargetType = "OBJECT_LIBRARY"
    => \A t \in Tags :
         Offenders(t) = ClassifiedAs({"ExternalObjects", "ModuleDefinitionFile",
                                      "IDLSources", "Certificates"})

\* C28: every query on an object library records as offenders the sources
\* classified as external objects, def files and idl files, and no other
\* source: a certificate is no offender
C28_OffendersAffectLinking ==
  clsRet.done /\ clsTargetType = "OBJECT_LIBRARY"
    => \A t \in Tags :
         /\ Offenders(t) = ClassifiedAs({"ExternalObjects",
                                         "ModuleDefinitionFile", "IDLSources"})
         /\ Offenders(t) \cap Category("Certificates") = {}

\* an object library with a certificate and a def file: the def file is the
\* offender
C28_Witness ==
  /\ clsRet.done /\ clsTargetType = "OBJECT_LIBRARY"
  /\ Category("Certificates") # {}
  /\ Category("ModuleDefinitionFile") # {}
  /\ Offenders("ObjectSources") = Category("ModuleDefinitionFile")

(* C29 *)
\* the offenders among the sources of the query, in the order of the sources
RECURSIVE OffendersInOrder(_, _)
OffendersInOrder(sources, i) ==
  IF i > Len(sources) THEN <<>>
  ELSE (IF sources[i] \in ClassifiedAs({"ExternalObjects",
                                        "ModuleDefinitionFile", "IDLSources"})
        THEN <<sources[i]>> ELSE <<>>)
       \o OffendersInOrder(sources, i + 1)

\* C29: a query on an object library that collected an offender issues one
\* FATAL_ERROR that lists every offender of the query, the last source
\* included when it is one, and a query without an offender, or on another
\* target, issues none
C29_OneErrorForAllOffenders ==
  clsRet.done
    => \A t \in Tags :
         clsRet.by[t].messages =
           (IF clsTargetType = "OBJECT_LIBRARY"
               /\ OffendersInOrder(clsSources, 1) # <<>>
            THEN <<[type |-> "FATAL_ERROR",
                    files |-> OffendersInOrder(clsSources, 1)]>>
            ELSE <<>>)

\* an object library whose two sources, the last one too, are offenders:
\* one message names both
C29_Witness ==
  /\ clsRet.done /\ clsTargetType = "OBJECT_LIBRARY"
  /\ Len(clsSources) = 2
  /\ Len(clsRet.by["HeaderSources"].messages) = 1
  /\ clsRet.by["HeaderSources"].messages[1].files = clsSources

(* C30 *)
\* the last call was GetSourceFiles(std::vector<std::string>&, config)
\* after configuration, and processSources reached every own entry: no own
\* source is missing
OwnEntriesProcessed ==
  /\ srcRet.op = "string"
  /\ ConfigureDoneCMP0026
  /\ OwnSourcesFound(srcRet.config)

\* an own entry gave a relative path to that call
OwnRelativePath ==
  /\ OwnEntriesProcessed
  /\ \E src \in Range(OwnSourceValues(srcRet.config)) : ~FileIsFullPath(src)

\* the first INTERFACE_SOURCES value that the call reached is a relative
\* path of a source that exists
InterfaceRelativePath ==
  /\ OwnEntriesProcessed
  /\ InterfaceSourceValues(srcRet.config) # <<>>
  /\ ~FileIsFullPath(Head(InterfaceSourceValues(srcRet.config)))
  /\ GetFullPath(Head(InterfaceSourceValues(srcRet.config))) # NoPath

\* C30 as stated: a relative path of an own source entry makes source
\* resolution issue the generic 'Found relative path while evaluating
\* sources' FATAL_ERROR, as one from INTERFACE_SOURCES makes it issue the
\* 'contains relative path in its INTERFACE_SOURCES' FATAL_ERROR
C30_AsStated ==
  /\ OwnRelativePath => RelativePathError("") \in srcRet.msgs
  /\ InterfaceRelativePath => RelativePathError("L3") \in srcRet.msgs

\* C30: source resolution never issues the generic FATAL_ERROR; a relative
\* path of an own source entry is accepted and returned as the full path
\* under the source directory, and a relative path from INTERFACE_SOURCES
\* makes it issue the 'contains relative path in its INTERFACE_SOURCES'
\* FATAL_ERROR
C30_OnlyInterfaceRelativeIsFatal ==
  /\ srcRet.op \in {"string", "cached"}
       => RelativePathError("") \notin srcRet.msgs
  /\ OwnEntriesProcessed
       => \A src \in Range(OwnSourceValues(srcRet.config)) :
            ~FileIsFullPath(src)
              => Path(CurrentSourceDirectory, src.file) \in Range(srcRet.files)
  /\ InterfaceRelativePath => RelativePathError("L3") \in srcRet.msgs

\* a call took an own relative path as a source and stopped with the
\* FATAL_ERROR at the relative INTERFACE_SOURCES of a linked target
C30_Witness ==
  /\ OwnRelativePath
  /\ InterfaceRelativePath
  /\ A_abs \in Range(srcRet.files)
  /\ srcRet.msgs = {RelativePathError("L3")}

-----------------------------------------------------------------------------
(* The object-filename mapping: GetObjectSources, ComputeObjectMapping and  *)
(* GetObjectName.  A source file is the key of its entry by its name.       *)

EmptyObjects == [sf \in {} |-> ""]

\* a guard that never finds the mapping filled
NeverFilled(objects) == FALSE

\* !this->Objects.empty()
ObjectsFilled(objects) == DOMAIN objects # {}

\* this->Objects[sf]: the entry of sf, created empty when there is none
ObjectsEntry(objects, sf) ==
  [k \in DOMAIN objects \cup {sf} |->
     IF k \in DOMAIN objects THEN objects[k] ELSE ""]

\* the loop of GetObjectSources over data
RECURSIVE ObjectsEntries(_, _)
ObjectsEntries(objects, data) ==
  IF data = <<>> THEN objects
  ELSE ObjectsEntries(ObjectsEntry(objects, Head(data).name), Tail(data))

\* cmLocalGenerator::ComputeObjectFilenames(mapping, gt): every entry of the
\* mapping it is handed gets the object file name of its source
ComputeObjectFilenames(mapping) ==
  [sf \in DOMAIN mapping |-> sf \o ".o"]

\* The state the three operations work on.
ObjectsState(objects, computed, messages) ==
  [Objects |-> objects, computed |-> computed, messages |-> messages]

\* cmGeneratorTarget::GetObjectSources(data, config) on target t
GetObjectSources(st, t, config) ==
  Once({ LET visit == IMPLEMENT_VISIT_IMPL("ObjectSources", t.type,
                                           t.sourceFiles[config])
             issued == s.messages \o visit.messages
         IN IF ObjectsFilled(s.Objects)
            THEN [state |-> ObjectsState(s.Objects, s.computed, issued),
                  data |-> visit.data]
            ELSE LET mapping == ObjectsEntries(s.Objects, visit.data)
                 IN [state |-> ObjectsState(ComputeObjectFilenames(mapping),
                                            Append(s.computed, DOMAIN mapping),
                                            issued),
                     data |-> visit.data]
         : s \in {st} })

\* the configurations ComputeObjectMapping goes through
GetConfigurations(t) == IF t.configs = <<>> THEN <<"">> ELSE t.configs

\* the loop of ComputeObjectMapping over configs
RECURSIVE ObjectSourcesOfEach(_, _, _)
ObjectSourcesOfEach(st, t, configs) ==
  IF configs = <<>> THEN st
  ELSE ObjectSourcesOfEach(GetObjectSources(st, t, Head(configs)).state, t,
                           Tail(configs))

\* cmGeneratorTarget::ComputeObjectMapping()
ComputeObjectMapping(st, t) ==
  Once({ IF ObjectsFilled(s.Objects) THEN s
         ELSE ObjectSourcesOfEach(s, t, GetConfigurations(t))
         : s \in {st} })

\* cmGeneratorTarget::GetObjectName(file)
GetObjectName(st, t, file) ==
  Once({ [state |-> [s EXCEPT !.Objects = ObjectsEntry(s.Objects, file)],
          name |-> ObjectsEntry(s.Objects, file)[file]]
         : s \in {ComputeObjectMapping(st, t)} })

-----------------------------------------------------------------------------
(* Bounds and inputs of the object-mapping specification.                  *)

MaxObjectCalls == 3

ObjectConfigs == {"", "Debug", "Release"}

ObjMain == SourceFile("main", FALSE, FALSE, FALSE, "C", "c", FALSE)
ObjDebugOnly == SourceFile("dbg", FALSE, FALSE, FALSE, "C", "c", FALSE)
ObjReleaseOnly == SourceFile("rel", FALSE, FALSE, FALSE, "C", "c", FALSE)
ObjHeader == SourceFile("api", FALSE, FALSE, FALSE, "", "h", TRUE)
ObjDef == SourceFile("exports", FALSE, FALSE, FALSE, "", "def", FALSE)

ObjectFiles == {"main", "dbg", "rel", "api"}

\* what GetSourceFiles gives per configuration: the same compiled sources
\* in every configuration, a compiled source more in some, compiled sources
\* in some configurations only, and none
ObjectSourceChoices ==
  { [c \in ObjectConfigs |-> <<ObjMain, ObjHeader>>],
    [c \in ObjectConfigs |-> <<ObjMain, ObjDef>>],
    [c \in ObjectConfigs |->
       CASE c = "Debug" -> <<ObjMain, ObjDebugOnly>>
         [] c = "Release" -> <<ObjMain, ObjReleaseOnly>>
         [] OTHER -> <<ObjMain>>],
    [c \in ObjectConfigs |->
       IF c = "Release" THEN <<ObjMain, ObjHeader>> ELSE <<ObjHeader>>],
    [c \in ObjectConfigs |-> <<ObjHeader>>] }

ObjectTarget(type, configs, sourceFiles) ==
  [type |-> type, configs |-> configs, sourceFiles |-> sourceFiles]

NoObjectCall == [op |-> "none", config |-> "", file |-> "", data |-> <<>>,
                 name |-> ""]

ObjInit ==
  /\ objTarget \in
       { ObjectTarget(type, configs, sourceFiles) :
           type \in {"OBJECT_LIBRARY", "EXECUTABLE"},
           configs \in {<<>>, <<"Debug">>, <<"Debug", "Release">>},
           sourceFiles \in ObjectSourceChoices }
  /\ Objects = EmptyObjects
  /\ objComputed = <<>>
  /\ objMessages = <<>>
  /\ objCalls = 0
  /\ objRet = NoObjectCall

ObjState == ObjectsState(Objects, objComputed, objMessages)

ObjBecomes(st) ==
  /\ Objects' = st.Objects
  /\ objComputed' = st.computed
  /\ objMessages' = st.messages
  /\ objCalls' = objCalls + 1
  /\ UNCHANGED objTarget

\* a generator asks for the compiled sources of a configuration
ObjGetObjectSources(config) ==
  /\ UNCHANGED objOthers
  /\ objCalls < MaxObjectCalls
  /\ \E r \in {GetObjectSources(ObjState, objTarget, config)} :
       /\ ObjBecomes(r.state)
       /\ objRet' = [NoObjectCall EXCEPT !.op = "GetObjectSources",
                                         !.config = config, !.data = r.data]

\* a generator asks for the mapping of every configuration
ObjComputeObjectMapping ==
  /\ UNCHANGED objOthers
  /\ objCalls < MaxObjectCalls
  /\ ObjBecomes(ComputeObjectMapping(ObjState, objTarget))
  /\ objRet' = [NoObjectCall EXCEPT !.op = "ComputeObjectMapping"]

\* a generator asks for the object file name of a source
ObjGetObjectName(file) ==
  /\ UNCHANGED objOthers
  /\ objCalls < MaxObjectCalls
  /\ \E r \in {GetObjectName(ObjState, objTarget, file)} :
       /\ ObjBecomes(r.state)
       /\ objRet' = [NoObjectCall EXCEPT !.op = "GetObjectName",
                                         !.file = file, !.name = r.name]

ObjNext ==
  \/ \E config \in ObjectConfigs : ObjGetObjectSources(config)
  \/ ObjComputeObjectMapping
  \/ \E file \in ObjectFiles : ObjGetObjectName(file)

ObjIdle ==
  /\ objTarget = ObjectTarget("EXECUTABLE", <<>>,
                              [c \in ObjectConfigs |-> <<>>])
  /\ Objects = EmptyObjects
  /\ objComputed = <<>>
  /\ objMessages = <<>>
  /\ objCalls = 0
  /\ objRet = NoObjectCall

-----------------------------------------------------------------------------
(* Claims about the object-filename mapping.                               *)

\* every entry the mapping has keeps its object file name in the step
EntriesKept ==
  \A sf \in DOMAIN Objects : sf \in DOMAIN Objects' /\ Objects'[sf] = Objects[sf]

\* the step does not invoke the object-filename computation
NotComputedAgain == objComputed' = objComputed

\* the computations that were handed a mapping with an entry
ComputedWithEntries == {i \in DOMAIN objComputed : objComputed[i] # {}}

(* C26 *)
\* C26 as stated: the object-filename computation is invoked exactly once,
\* on the first request; after the first GetObjectSources or
\* ComputeObjectMapping call no later call invokes it again or changes an
\* existing entry of the mapping
C26_AsStated ==
  /\ [](Len(objComputed) <= 1)
  /\ [][objComputed # <<>> => NotComputedAgain /\ EntriesKept]_vars

\* C26: the object-filename computation is handed a mapping with an entry
\* at most once; once the mapping has an entry no later call for any
\* configuration invokes the computation again or changes an existing
\* entry, and while the mapping is empty every GetObjectSources call
\* invokes the computation with the compiled sources of its configuration
C26_ComputedOnceFilled ==
  /\ [](Cardinality(ComputedWithEntries) <= 1)
  /\ [][/\ EntriesKept
        /\ ObjectsFilled(Objects) => NotComputedAgain
        /\ (~ObjectsFilled(Objects) /\ objRet'.op = "GetObjectSources")
             => objComputed' =
                  Append(objComputed,
                         {sf.name : sf \in Range(objRet'.data)})]_vars

\* the first request found no compiled source and left the mapping empty, a
\* later one computed the mapping, and a call after that left it alone
C26_Witness ==
  /\ objCalls = 3
  /\ Len(objComputed) = 2
  /\ objComputed[1] = {}
  /\ objComputed[2] # {}
  /\ DOMAIN Objects = objComputed[2]
  /\ objRet.op = "GetObjectSources"
  /\ objRet.data # <<>>

(* C27 *)
\* the compiled sources of the target in a configuration
CompiledSources(config) ==
  {sf.name : sf \in Range(IMPLEMENT_VISIT_IMPL("ObjectSources", objTarget.type,
                                  objTarget.sourceFiles[config]).data)}

\* the sources with an entry in a mapping handed to the computation
HandedToComputation == UNION Range(objComputed)

\* C27: after ComputeObjectMapping every source that is a compiled source
\* of the target in at least one configuration has an entry in the mapping
\* that was handed to the object-filename computation, also when the
\* compiled sources differ between configurations
C27_EveryCompiledSourceMapped ==
  objRet.op = "ComputeObjectMapping"
    => \A config \in Range(GetConfigurations(objTarget)) :
         CompiledSources(config) \subseteq HandedToComputation

(* C31 *)
\* the link implementation items that are imported targets with an include
\* directory that does not exist, for a configuration
ImportedWithMissing(config) ==
  {i \in 1..Len(optTarget.libraries) :
     /\ optTarget.libraries[i].isTarget
     /\ optTarget.libraries[i].imported
     /\ \E v \in Range(EvaluateEntry(
               optTarget.libraries[i].interface["INCLUDE_DIRECTORIES"],
               config)) : v \in MissingDirectories}

\* the first of them in the order of the link implementation
FirstImportedWithMissing(config) ==
  optTarget.libraries[CHOOSE i \in ImportedWithMissing(config) :
                        \A j \in ImportedWithMissing(config) : i <= j]

\* the diagnostics of GetIncludeDirectories about a missing directory
MissingPathMessages ==
  {k \in 1..Len(optRet.msgs) : optRet.msgs[k].text = "includes non-existent path"}

\* the processing of the interface entries was not ended by the FATAL_ERROR
\* for a relative path in INTERFACE_INCLUDE_DIRECTORIES
NoRelativeInterfacePath ==
  \A k \in 1..Len(optRet.msgs) :
    optRet.msgs[k].text
      # "contains relative path in its INTERFACE_INCLUDE_DIRECTORIES"

\* the severity CMP0027 gives: a warning under OLD and WARN, fatal under NEW
SeverityCMP0027 ==
  IF optTarget.CMP0027 \in {"WARN", "OLD"} THEN "AUTHOR_WARNING"
  ELSE "FATAL_ERROR"

\* C31 as stated: a missing include directory of an imported target gets a
\* diagnostic whose severity CMP0027 governs (warning under OLD and WARN,
\* fatal under NEW), however the imported target was named in the link
\* libraries
C31_AsStated ==
  optRet.op = "INCLUDE_DIRECTORIES"
    => /\ (ImportedWithMissing(optRet.config) # {} /\ NoRelativeInterfacePath)
            => MissingPathMessages # {}
       /\ \A k \in MissingPathMessages :
            optRet.msgs[k].type = SeverityCMP0027

\* C31: the first missing include directory of an imported target that
\* processing reaches gets one diagnostic, the last message of the call;
\* CMP0027 governs its severity (warning under OLD and WARN, fatal under
\* NEW) only when the imported target was named through a generator
\* expression, and it is a fatal error under every policy setting when the
\* target was named plainly
C31_PolicyForGenexOnly ==
  optRet.op = "INCLUDE_DIRECTORIES"
    => /\ (ImportedWithMissing(optRet.config) # {} /\ NoRelativeInterfacePath)
            => MissingPathMessages # {}
       /\ \A k \in MissingPathMessages :
            /\ k = Len(optRet.msgs)
            /\ ImportedWithMissing(optRet.config) # {}
            /\ optRet.msgs[k].type =
                 IF FirstImportedWithMissing(optRet.config).FromGenex
                 THEN SeverityCMP0027 ELSE "FATAL_ERROR"

\* under CMP0027 OLD a plainly named imported target with a missing include
\* directory got the fatal error
C31_Witness ==
  /\ optRet.op = "INCLUDE_DIRECTORIES"
  /\ optTarget.CMP0027 = "OLD"
  /\ ImportedWithMissing(optRet.config) # {}
  /\ ~FirstImportedWithMissing(optRet.config).FromGenex
  /\ MissingPathMessages # {}
  /\ \A k \in MissingPathMessages : optRet.msgs[k].type = "FATAL_ERROR"

(* C32 *)
\* the implied default of a property of type t
ImpliedDefault(t) == IF t = "BoolType" THEN FALSE ELSE ""

\* the closure members whose set INTERFACE_<p> is inconsistent with the
\* implied default: a boolean that is true, a string that is not empty, and
\* for a number property every set value, the empty default being no number
ConflictingWithDefault(p, t) ==
  {j \in Setters(p) :
     \/ t \in {"NumberMaxType", "NumberMinType"}
     \/ SetValue(j, p, t) # ImpliedDefault(t)}

\* C32: a property not set on the target but read while its link libraries
\* were computed is resolved from the implied default (FALSE for a boolean,
\* the empty string otherwise): the first closure member whose set
\* INTERFACE value is inconsistent with the default gets the 'is implied to
\* be ... in conflict' error, and without such a member no error is
\* reported and the default is the value
C32_ImpliedDefaultRules ==
  LET p == cmpRet.p
      t == cmpRet.t
      conflicting == ConflictingWithDefault(p, t)
  IN (/\ cmpRet.op = "check"
      /\ cmpProps[p] = Null
      /\ p \in LinkImplicitNullProperties)
     => IF conflicting # {}
        THEN /\ cmpRet.error = "is implied"
             /\ cmpRet.dep = cmpDeps[First(conflicting)].name
        ELSE /\ cmpRet.error = ""
             /\ cmpDeps # <<>> => cmpRet.value = ImpliedDefault(t)

\* P is implied by use, B sets INTERFACE_P to OFF and C sets it to ON: the
\* boolean reconciliation passed B and reported the conflict with C
C32_Witness ==
  /\ cmpRet.op = "check" /\ cmpRet.t = "BoolType" /\ cmpRet.p = "P"
  /\ cmpProps["P"] = Null /\ "P" \in LinkImplicitNullProperties
  /\ Len(cmpDeps) = 2
  /\ cmpDeps[1].props["INTERFACE_P"] = "OFF"
  /\ cmpDeps[2].props["INTERFACE_P"] = "ON"
  /\ cmpRet.error = "is implied" /\ cmpRet.dep = "C"

(* C36 *)
\* SOURCES is listed in CMAKE_DEBUG_TARGET_PROPERTIES
DebuggingSources == "SOURCES" \in DebugTargetProperties

\* the step is a source resolution that used a source
ResolutionWithSources ==
  /\ srcRet' # srcRet
  /\ srcRet'.op \in {"cached", "string"}
  /\ ~srcRet'.undefined
  /\ srcRet'.files # <<>>

\* the call of the step emitted the 'Used sources' LOG message
UsedSourcesLogged == "LOG: Used sources" \in srcRet'.msgs

\* C36 as stated: with SOURCES debugged the first source resolution emits
\* the 'Used sources' LOG and no later one does, except that AddSource and
\* AddTracedSources clear the done flag, so that the next source resolution
\* emits the log again
C36_AsStated ==
  [][(DebuggingSources /\ ConfigureDoneCMP0026 /\ ResolutionWithSources)
       => /\ NextCallAfterAddition => UsedSourcesLogged
          /\ (DebugSourcesDone /\ ~NextCallAfterAddition)
               => ~UsedSourcesLogged]_vars

\* C36: with SOURCES debugged, the first source resolution made once
\* configuration is done emits the 'Used sources' LOG when it uses a source
\* and sets the done flag; the flag is never cleared, AddSource and
\* AddTracedSources leave it set, so no later source resolution emits the
\* log, also after a mutation of the source set; before configuration is
\* done no resolution emits it
C36_LoggedByFirstResolutionOnly ==
  [][/\ DebugSourcesDone => DebugSourcesDone'
     /\ (srcRet' # srcRet /\ srcRet'.op \in {"cached", "string"})
          => /\ UsedSourcesLogged
                  => /\ DebuggingSources /\ ConfigureDoneCMP0026
                     /\ ~DebugSourcesDone /\ DebugSourcesDone'
             /\ (/\ DebuggingSources /\ ConfigureDoneCMP0026
                 /\ ~DebugSourcesDone /\ ResolutionWithSources)
                  => UsedSourcesLogged /\ DebugSourcesDone']_vars

\* the sources were reported, and the source resolution made last, for a
\* source set of two entries, used sources and emitted no log
C36_Witness ==
  /\ DebuggingSources
  /\ ConfigureDoneCMP0026
  /\ DebugSourcesDone
  /\ Len(SourceEntries) = 2
  /\ srcRet.op = "string"
  /\ AddedSources \subseteq Range(srcRet.files)
  /\ "LOG: Used sources" \notin srcRet.msgs

-----------------------------------------------------------------------------
(* Link items by name: CheckCMP0004, the item loops of                     *)
(* ComputeLinkImplementationLibraries and LookupLinkItems.  A name is the   *)
(* sequence of its characters.                                             *)

\* the characters of " \t\r\n"
Whitespace == {" ", "\t", "\r", "\n"}

\* std::string::npos, no position of a sequence indexed from 1
npos == 0

\* lib.find_first_not_of(" \t\r\n")
find_first_not_of(lib) ==
  IF \A i \in 1..Len(lib) : lib[i] \in Whitespace THEN npos
  ELSE CHOOSE i \in 1..Len(lib) :
         /\ lib[i] \notin Whitespace
         /\ \A j \in 1..(i - 1) : lib[j] \in Whitespace

\* lib.find_last_not_of(" \t\r\n")
find_last_not_of(lib) ==
  IF \A i \in 1..Len(lib) : lib[i] \in Whitespace THEN npos
  ELSE CHOOSE i \in 1..Len(lib) :
         /\ lib[i] \notin Whitespace
         /\ \A j \in (i + 1)..Len(lib) : lib[j] \in Whitespace

\* the two substr calls of CheckCMP0004 that also empty a name made of
\* whitespace only
StripWhitespaceOrEmpty(item) ==
  IF find_first_not_of(item) = npos THEN <<>>
  ELSE SubSeq(item, find_first_not_of(item), find_last_not_of(item))

\* lib after the two substr calls of CheckCMP0004: each is made only when
\* a character that is no whitespace was found
StripWhitespace(item) ==
  LET pos == find_first_not_of(item)
      lib == IF pos # npos THEN SubSeq(item, pos, Len(item)) ELSE item
      last == find_last_not_of(lib)
  IN IF last # npos THEN SubSeq(lib, 1, last) ELSE lib

Policies == {"OLD", "WARN", "NEW", "REQUIRED_IF_USED", "REQUIRED_ALWAYS"}

WhitespaceMessage(type, item) ==
  [type |-> type, text |-> "has leading or trailing whitespace",
   item |-> item]

\* the switch of CheckCMP0004 on GetPolicyStatusCMP0004()
MessagesCMP0004(policy, item) ==
  CASE policy = "WARN" -> <<WhitespaceMessage("AUTHOR_WARNING", item)>>
    [] policy = "OLD" -> <<>>
    [] OTHER -> <<WhitespaceMessage("FATAL_ERROR", item)>>

\* cmGeneratorTarget::CheckCMP0004(item): the name it returns and the
\* messages it issues
CheckCMP0004(t, item) ==
  LET lib == StripWhitespace(item)
  IN [lib |-> lib,
      messages |-> IF lib # item THEN MessagesCMP0004(t.CMP0004, item)
                   ELSE <<>>]

\* cmLinkItem(name, this->FindTargetToLink(name)): B is the one other
\* target there is
LinkItemOf(name) ==
  [name |-> name, Target |-> IF name = <<"B">> THEN "B" ELSE NoTarget]

SelfLinkMessage(type) == [type |-> type, text |-> "links to itself", item |-> <<>>]

\* a switch on GetPolicyStatusCMP0038() that never issues a message
NoMessagesCMP0038(policy) == <<>>

\* the switch of ComputeLinkImplementationLibraries on
\* GetPolicyStatusCMP0038()
MessagesCMP0038(policy) ==
  CASE policy = "WARN" -> <<SelfLinkMessage("AUTHOR_WARNING")>>
    [] policy = "OLD" -> <<>>
    [] OTHER -> <<SelfLinkMessage("FATAL_ERROR")>>

\* the body of the loop over llibs for one name; impl holds Libraries,
\* WrongConfigLibraries, the messages and whether the function returned
ImplementationItem(t, impl, li) ==
  Once({ IF c.lib = t.name \/ c.lib = <<>>
         THEN IF c.lib = t.name
              THEN [impl EXCEPT
                      !.messages = @ \o c.messages \o MessagesCMP0038(t.CMP0038),
                      !.returned = t.CMP0038 \notin {"WARN", "OLD"}]
              ELSE [impl EXCEPT !.messages = @ \o c.messages]
         ELSE [impl EXCEPT !.messages = @ \o c.messages,
                           !.Libraries = Append(@, LinkItemOf(c.lib))]
         : c \in {CheckCMP0004(t, li)} })

\* the loops over the entries of LINK_LIBRARIES and over the names each
\* evaluates to, from name i of entry le on
RECURSIVE ImplementationItems(_, _, _, _, _)
ImplementationItems(t, entries, le, i, impl) ==
  IF impl.returned \/ le > Len(entries) THEN impl
  ELSE IF i > Len(entries[le]) THEN ImplementationItems(t, entries, le + 1, 1, impl)
  ELSE ImplementationItems(t, entries, le, i + 1,
                           ImplementationItem(t, impl, entries[le][i]))

\* the body of the loop over oldllibs for a library of another link type
WrongConfigItem(t, impl, name) ==
  Once({ IF c.lib = t.name \/ c.lib = <<>>
         THEN [impl EXCEPT !.messages = @ \o c.messages]
         ELSE [impl EXCEPT !.messages = @ \o c.messages,
                           !.WrongConfigLibraries = Append(@, LinkItemOf(c.lib))]
         : c \in {CheckCMP0004(t, name)} })

\* the loop over GetOriginalLinkLibraries(); wrongConfig says that the
\* library is neither general nor of the link type of the configuration
RECURSIVE WrongConfigItems(_, _, _, _)
WrongConfigItems(t, oldllibs, i, impl) ==
  IF impl.returned \/ i > Len(oldllibs) THEN impl
  ELSE WrongConfigItems(t, oldllibs, i + 1,
         IF oldllibs[i].wrongConfig
         THEN WrongConfigItem(t, impl, oldllibs[i].name) ELSE impl)

NewImplementationItems ==
  [Libraries |-> <<>>, WrongConfigLibraries |-> <<>>, messages |-> <<>>,
   returned |-> FALSE]

\* ComputeLinkImplementationLibraries(config, impl, head) on the evaluated
\* entries of LINK_LIBRARIES and the original link libraries
ComputeImplementationItems(t, entries, oldllibs) ==
  WrongConfigItems(t, oldllibs, 1,
    ImplementationItems(t, entries, 1, 1, NewImplementationItems))

\* the body of the loop of LookupLinkItems for one name
LookupItem(t, r, name) ==
  Once({ IF c.lib = t.name \/ c.lib = <<>>
         THEN [r EXCEPT !.messages = @ \o c.messages]
         ELSE [r EXCEPT !.messages = @ \o c.messages,
                        !.items = Append(@, LinkItemOf(c.lib))]
         : c \in {CheckCMP0004(t, name)} })

\* cmGeneratorTarget::LookupLinkItems(names, items)
RECURSIVE LookupItems(_, _, _, _)
LookupItems(t, names, i, r) ==
  IF i > Len(names) THEN r
  ELSE LookupItems(t, names, i + 1, LookupItem(t, r, names[i]))

-----------------------------------------------------------------------------
(* Bounds and inputs of the link-item specification.                       *)

MaxItemLen == 3

ItemChars == {" ", "\n", "A"}

\* every name of at most MaxItemLen characters
AllItems == UNION {[1..n -> ItemChars] : n \in 0..MaxItemLen}

\* the lists of names an entry of LINK_LIBRARIES or an interface property
\* evaluates to
ItemLists ==
  { <<<<"B">>>>,
    <<<<"A">>>>,
    <<<<" ", "A">>, <<"B", " ">>>>,
    <<<<" ">>>>,
    <<<<>>, <<"B">>>>,
    <<<<"A">>, <<"A">>>>,
    <<<<"B">>, <<"A">>, <<"B", "B">>>> }

EntryChoices ==
  {<<l>> : l \in ItemLists} \cup {<<l1, l2>> : l1, l2 \in ItemLists}

OriginalLibrary(name, wrongConfig) == [name |-> name, wrongConfig |-> wrongConfig]

OriginalChoices ==
  { <<>>,
    <<OriginalLibrary(<<"B">>, FALSE), OriginalLibrary(<<"A">>, TRUE),
      OriginalLibrary(<<"B", " ">>, TRUE)>> }

NoItemCall ==
  [op |-> "none", item |-> <<>>, entries |-> <<>>, lib |-> <<>>,
   Libraries |-> <<>>, WrongConfigLibraries |-> <<>>, messages |-> <<>>]

ItmInit ==
  /\ itmTarget \in [name : {<<"A">>}, CMP0004 : Policies, CMP0038 : Policies]
  /\ itmRet = NoItemCall

\* a call of CheckCMP0004
ItmCheckCMP0004(item) ==
  /\ UNCHANGED itmOthers
  /\ UNCHANGED itmTarget
  /\ \E c \in {CheckCMP0004(itmTarget, item)} :
       itmRet' = [NoItemCall EXCEPT !.op = "CheckCMP0004", !.item = item,
                                    !.lib = c.lib, !.messages = c.messages]

\* the libraries of a link implementation are computed
ItmComputeLinkImplementationLibraries(entries, oldllibs) ==
  /\ UNCHANGED itmOthers
  /\ UNCHANGED itmTarget
  /\ \E impl \in {ComputeImplementationItems(itmTarget, entries, oldllibs)} :
       itmRet' = [NoItemCall EXCEPT
                    !.op = "ComputeLinkImplementationLibraries",
                    !.entries = entries,
                    !.Libraries = impl.Libraries,
                    !.WrongConfigLibraries = impl.WrongConfigLibraries,
                    !.messages = impl.messages]

\* the items of a link interface are looked up
ItmLookupLinkItems(names) ==
  /\ UNCHANGED itmOthers
  /\ UNCHANGED itmTarget
  /\ \E r \in {LookupItems(itmTarget, names, 1,
                           [items |-> <<>>, messages |-> <<>>])} :
       itmRet' = [NoItemCall EXCEPT !.op = "LookupLinkItems",
                                    !.entries = <<names>>,
                                    !.Libraries = r.items,
                                    !.messages = r.messages]

ItmNext ==
  \/ \E item \in AllItems : ItmCheckCMP0004(item)
  \/ \E entries \in EntryChoices, oldllibs \in OriginalChoices :
       ItmComputeLinkImplementationLibraries(entries, oldllibs)
  \/ \E names \in ItemLists : ItmLookupLinkItems(names)

ItmIdle ==
  /\ itmTarget = [name |-> <<"A">>, CMP0004 |-> "NEW", CMP0038 |-> "NEW"]
  /\ itmRet = NoItemCall

-----------------------------------------------------------------------------
(* Claims about link items.                                                *)

\* a name without its leading and trailing whitespace
RECURSIVE TrimLeft(_), TrimRight(_)
TrimLeft(s) ==
  IF s # <<>> /\ Head(s) \in Whitespace THEN TrimLeft(Tail(s)) ELSE s

TrimRight(s) ==
  IF s # <<>> /\ s[Len(s)] \in Whitespace
  THEN TrimRight(SubSeq(s, 1, Len(s) - 1)) ELSE s

Trimmed(s) == TrimRight(TrimLeft(s))

\* the name begins or ends with whitespace
HasOuterWhitespace(s) ==
  s # <<>> /\ (s[1] \in Whitespace \/ s[Len(s)] \in Whitespace)

\* the items of a computed link implementation or link interface
ComputedItems ==
  Range(itmRet.Libraries) \cup Range(itmRet.WrongConfigLibraries)

\* the messages of the last call about a target that links to itself
SelfLinkMessages ==
  {k \in DOMAIN itmRet.messages : itmRet.messages[k].text = "links to itself"}

\* the names of the entries of LINK_LIBRARIES given to the last call, in order
RECURSIVE Flattened(_)
Flattened(entries) ==
  IF entries = <<>> THEN <<>>
  ELSE Head(entries) \o Flattened(Tail(entries))

\* the self-references among them: the names that are the target's own
\* name once their outer whitespace is removed
SelfReferences ==
  {i \in DOMAIN Flattened(itmRet.entries) :
     Trimmed(Flattened(itmRet.entries)[i]) = itmTarget.name}

(* C33 *)
\* C33: no item of a computed link implementation or link interface has
\* the name of the owning target or the empty name; the self-references
\* among the link-implementation entries give no message under CMP0038 OLD,
\* an AUTHOR_WARNING each under WARN, and under NEW and the REQUIRED
\* settings the first of them gives a FATAL_ERROR, which ends the
\* computation
C33_NoSelfNoEmpty ==
  /\ \A item \in ComputedItems :
       item.name # itmTarget.name /\ item.name # <<>>
  /\ itmRet.op = "LookupLinkItems" => SelfLinkMessages = {}
  /\ itmRet.op = "ComputeLinkImplementationLibraries"
       => CASE itmTarget.CMP0038 = "OLD" -> SelfLinkMessages = {}
            [] itmTarget.CMP0038 = "WARN" ->
                 /\ Cardinality(SelfLinkMessages) = Cardinality(SelfReferences)
                 /\ \A k \in SelfLinkMessages :
                      itmRet.messages[k].type = "AUTHOR_WARNING"
            [] OTHER ->
                 /\ Cardinality(SelfLinkMessages) =
                      IF SelfReferences = {} THEN 0 ELSE 1
                 /\ \A k \in SelfLinkMessages :
                      /\ itmRet.messages[k].type = "FATAL_ERROR"
                      /\ k = Len(itmRet.messages)

\* under CMP0038 WARN a link implementation was computed from entries that
\* name the target itself twice and another target: two warnings, and the
\* other target is the only item
C33_Witness ==
  /\ itmRet.op = "ComputeLinkImplementationLibraries"
  /\ itmTarget.CMP0038 = "WARN"
  /\ Cardinality(SelfReferences) = 2
  /\ Cardinality(SelfLinkMessages) = 2
  /\ itmRet.Libraries # <<>>
  /\ \A item \in ComputedItems : item.name = <<"B">>

(* C34 *)
\* the diagnostics CMP0004 asks for: none under OLD, an AUTHOR_WARNING
\* under WARN, a FATAL_ERROR under NEW and the REQUIRED settings
ExpectedCMP0004(item) ==
  CASE itmTarget.CMP0004 = "OLD" -> <<>>
    [] itmTarget.CMP0004 = "WARN" ->
         <<WhitespaceMessage("AUTHOR_WARNING", item)>>
    [] OTHER -> <<WhitespaceMessage("FATAL_ERROR", item)>>

\* C34: for an item with leading or trailing whitespace CheckCMP0004
\* returns the item without that whitespace and issues no message under
\* OLD, an AUTHOR_WARNING under WARN and a FATAL_ERROR under NEW,
\* REQUIRED_IF_USED and REQUIRED_ALWAYS; an item without such whitespace is
\* returned unchanged without a diagnostic
C34_StripsAndDiagnoses ==
  itmRet.op = "CheckCMP0004"
    => IF HasOuterWhitespace(itmRet.item)
       THEN /\ itmRet.lib = Trimmed(itmRet.item)
            /\ itmRet.messages = ExpectedCMP0004(itmRet.item)
       ELSE /\ itmRet.lib = itmRet.item
            /\ itmRet.messages = <<>>

(* C35 *)
\* C35: the name CheckCMP0004 returns never begins or ends with
\* whitespace, also for an input made of whitespace only, and no item of a
\* link implementation or link interface has a name with leading or
\* trailing whitespace
C35_NoOuterWhitespace ==
  /\ itmRet.op = "CheckCMP0004" => ~HasOuterWhitespace(itmRet.lib)
  /\ \A item \in ComputedItems : ~HasOuterWhitespace(item.name)

-----------------------------------------------------------------------------
(* The languages of a link implementation: GetLinkImplementation,          *)
(* ComputeLinkImplementationLanguages and GetLanguages, on the target of    *)
(* the source model.  The target has no external objects, so no object      *)
(* library adds a language.                                                *)

E_cxx == Path("/src", "e.cxx")

\* cmSourceFile::GetLanguage(): the language of the extension, "" for a
\* file of no language
GetLanguage(sf) ==
  CASE sf.file = "e.cxx" -> "CXX"
    [] sf.file \in {"a.c", "b.c", "c.c", "d.c", "r.c"} -> "C"
    [] OTHER -> ""

\* cmGeneratorTarget::GetLanguages(languages, config) on the files that
\* GetSourceFiles handed back
GetLanguages(sourceFiles) ==
  {GetLanguage(sf) : sf \in Range(sourceFiles)} \ {""}

\* cmOptionalLinkImplementation(), its languages
NewImplementationLanguages == [LanguagesDone |-> FALSE, Languages |-> {}]

\* this->LinkImplMap[CONFIG][this]
ImplementationOf(CONFIG) ==
  IF CONFIG \in DOMAIN LinkImplLanguages THEN LinkImplLanguages[CONFIG]
  ELSE NewImplementationLanguages

\* !impl.LanguagesDone
LanguagesToCompute(impl) == ~impl.LanguagesDone

MaxImplementationCalls == 2

NoImplementationCall ==
  [op |-> "none", config |-> "", isNull |-> TRUE, Languages |-> {},
   call |-> 0]

\* the arguments of AddSource in this specification: a C source, a C++
\* source and a C source under a condition on the configuration
LanguageSourceChoices ==
  { SrcEntry(<<A_abs>>, "*", ""),
    SrcEntry(<<E_cxx>>, "*", ""),
    SrcEntry(<<B_abs>>, "Debug", "") }

LilInit ==
  /\ LinkImplLanguages = EmptyMap
  /\ lilRet = NoImplementationCall

lilSrcOthers ==
  <<clsVars, cmpVars, outVars, lnkVars, lngVars, optVars, chkVars, namVars,
    trcVars, objVars, itmVars, macVars>>

\* cmGeneratorTarget::GetLinkImplementation(config): null for an imported
\* target; the languages are computed from GetSourceFiles(config) unless
\* LanguagesDone is set
GetLinkImplementationLanguages(config) ==
  /\ UNCHANGED lilSrcOthers
  /\ lilRet.call < MaxImplementationCalls
  /\ IF ~implLibraries.exists
     THEN /\ lilRet' = [NoImplementationCall EXCEPT
                          !.op = "GetLinkImplementation", !.config = config,
                          !.call = lilRet.call + 1]
          /\ UNCHANGED <<srcVars, LinkImplLanguages>>
     ELSE IF LanguagesToCompute(ImplementationOf(UpperCase(config)))
     THEN /\ GetSourceFilesCall(config)
          /\ LinkImplLanguages' =
               MapPut(LinkImplLanguages, UpperCase(config),
                      [LanguagesDone |-> TRUE,
                       Languages |-> GetLanguages(srcRet'.files)])
          /\ lilRet' = [op |-> "GetLinkImplementation", config |-> config,
                        isNull |-> FALSE,
                        Languages |-> GetLanguages(srcRet'.files),
                        call |-> lilRet.call + 1]
     ELSE /\ lilRet' = [op |-> "GetLinkImplementation", config |-> config,
                        isNull |-> FALSE,
                        Languages |->
                          ImplementationOf(UpperCase(config)).Languages,
                        call |-> lilRet.call + 1]
          /\ UNCHANGED <<srcVars, LinkImplLanguages>>

LilNext ==
  \/ \E src \in LanguageSourceChoices : AddSource(src)
  \/ \E config \in Configs : GetSourceFiles(config)
  \/ \E config \in Configs : GetLinkImplementationLanguages(config)

LilIdle ==
  /\ LinkImplLanguages = EmptyMap
  /\ lilRet = NoImplementationCall

(* C37 *)
\* the languages of the sources that the target's own entries give for a
\* configuration
DeclaredLanguages(config) == GetLanguages(OwnSourceValues(config))

\* C37: a GetLinkImplementation call lists among the languages of the
\* implementation every language of the sources the target then has for
\* the configuration, also the language of a source that AddSource added
\* after the link implementation of the configuration was computed
C37_LanguagesOfAddedSources ==
  [][(lilRet'.call # lilRet.call /\ ~lilRet'.isNull)
       => DeclaredLanguages(lilRet'.config) \subseteq lilRet'.Languages]_vars

(* C38 *)
\* GetLibraryNames has computed the versioned names of a library that is
\* neither imported nor a framework on Apple
VersionedNamesComputed ==
  /\ namRet.op = "GetLibraryNames"
  /\ ~namTarget.imported
  /\ ~IsFrameworkOnApple

\* the version and the soversion handed to ComputeVersionedName
EffectiveVersion ==
  VersionOrOther(Versioned(NamProperty("VERSION")),
                 Versioned(NamProperty("SOVERSION")))

EffectiveSOVersion ==
  VersionOrOther(Versioned(NamProperty("SOVERSION")),
                 Versioned(NamProperty("VERSION")))

\* "." and the version, nothing when no version is given
DotVersion(version) == IF version # Null THEN <<".", version>> ELSE <<>>

\* prefix+base, "."+version, suffix
VersionBeforeSuffix(parts, version) ==
  parts.prefix \o parts.base \o DotVersion(version) \o parts.suffix

\* prefix+base+suffix, "."+version
VersionAfterSuffix(parts, version) ==
  parts.prefix \o parts.base \o parts.suffix \o DotVersion(version)

\* C38 as stated: on every platform the version stands before the platform
\* suffix
C38_AsStated ==
  VersionedNamesComputed =>
    LET parts == GetFullNameInternal(namRet.config, FALSE)
    IN /\ namRet.realName = VersionBeforeSuffix(parts, EffectiveVersion)
       /\ namRet.soName = VersionBeforeSuffix(parts, EffectiveSOVersion)

\* C38: on an Apple platform the versioned name is prefix+base, "."+version
\* and then the platform suffix; on any other platform it is the full name
\* prefix+base+suffix followed by "."+version; without a version both are
\* the plain full name
C38_VersionAfterSuffixOffApple ==
  VersionedNamesComputed =>
    LET parts == GetFullNameInternal(namRet.config, FALSE)
    IN /\ namRet.realName =
            IF namTarget.APPLE
            THEN VersionBeforeSuffix(parts, EffectiveVersion)
            ELSE VersionAfterSuffix(parts, EffectiveVersion)
       /\ namRet.soName =
            IF namTarget.APPLE
            THEN VersionBeforeSuffix(parts, EffectiveSOVersion)
            ELSE VersionAfterSuffix(parts, EffectiveSOVersion)
       /\ EffectiveVersion = Null => namRet.realName = namRet.name
       /\ EffectiveSOVersion = Null => namRet.soName = namRet.name

\* a versioned shared library off Apple: the version follows the suffix
C38_Witness ==
  /\ VersionedNamesComputed
  /\ ~namTarget.APPLE
  /\ namTarget.type = "SHARED_LIBRARY"
  /\ EffectiveVersion = "1.2"
  /\ namRet.config = ""
  /\ namRet.realName = <<"lib", NamTargetName, ".so", ".", "1.2">>

-----------------------------------------------------------------------------
(* The Apple packaging of a target: IsFrameworkOnApple,                     *)
(* IsAppBundleOnApple, IsCFBundleOnApple, IsXCTestOnApple and the           *)
(* directories that BuildMacContentDirectory appends.  The properties are   *)
(* held as the value of GetPropertyAsBool; BUNDLE_EXTENSION is not set.     *)

\* cmState::TargetType
AllTargetTypes ==
  {"EXECUTABLE", "STATIC_LIBRARY", "SHARED_LIBRARY", "MODULE_LIBRARY",
   "OBJECT_LIBRARY", "UTILITY", "GLOBAL_TARGET", "INTERFACE_LIBRARY",
   "UNKNOWN_LIBRARY"}

\* cmGeneratorTarget::IsFrameworkOnApple of the target of this model
IsFrameworkOnAppleOf(t) ==
  t.type = "SHARED_LIBRARY" /\ t.APPLE /\ t.FRAMEWORK

\* cmGeneratorTarget::IsAppBundleOnApple
IsAppBundleOnApple(t) ==
  t.type = "EXECUTABLE" /\ t.APPLE /\ t.MACOSX_BUNDLE

\* a CFBundle that is no XCTest bundle
IsCFBundleOnAppleWithoutXCTest(t) ==
  t.type = "MODULE_LIBRARY" /\ t.APPLE /\ t.BUNDLE /\ ~t.XCTEST

\* cmGeneratorTarget::IsCFBundleOnApple
IsCFBundleOnApple(t) ==
  t.type = "MODULE_LIBRARY" /\ t.APPLE /\ t.BUNDLE

\* cmGeneratorTarget::IsXCTestOnApple
IsXCTestOnApple(t) == IsCFBundleOnApple(t) /\ t.XCTEST

\* "/Contents" and "/MacOS" of an application or CFBundle directory
ContentsDirectory(t, contentOnly) ==
  IF ~t.PlatformIsAppleIos
  THEN <<"/Contents">> \o (IF ~contentOnly THEN <<"/MacOS">> ELSE <<>>)
  ELSE <<>>

\* cmGeneratorTarget::GetAppBundleDirectory(config, contentOnly)
GetAppBundleDirectory(t, contentOnly) ==
  <<"foo", ".app">> \o ContentsDirectory(t, contentOnly)

\* cmGeneratorTarget::GetCFBundleDirectory(config, contentOnly)
GetCFBundleDirectory(t, contentOnly) ==
  <<"foo", ".", IF IsXCTestOnApple(t) THEN "xctest" ELSE "bundle">>
    \o ContentsDirectory(t, contentOnly)

\* cmGeneratorTarget::GetFrameworkDirectory(config, rootDir)
GetFrameworkDirectory(t, rootDir) ==
  <<"foo", ".framework">>
    \o (IF ~rootDir /\ ~t.PlatformIsAppleIos
        THEN <<"/Versions/", "A">> ELSE <<>>)

\* cmGeneratorTarget::BuildMacContentDirectory(base, config, contentOnly)
BuildMacContentDirectory(t, base, contentOnly) ==
  base
    \o (IF IsAppBundleOnApple(t)
        THEN GetAppBundleDirectory(t, contentOnly) ELSE <<>>)
    \o (IF IsFrameworkOnAppleOf(t)
        THEN GetFrameworkDirectory(t, contentOnly) ELSE <<>>)
    \o (IF IsCFBundleOnApple(t)
        THEN GetCFBundleDirectory(t, contentOnly) ELSE <<>>)

NoBundleCall == [op |-> "none", contentOnly |-> FALSE, fpath |-> <<>>]

MacInit ==
  /\ \E type \in AllTargetTypes, apple \in BOOLEAN, ios \in BOOLEAN,
        framework \in BOOLEAN, macosxBundle \in BOOLEAN,
        bundle \in BOOLEAN, xctest \in BOOLEAN :
       macTarget =
         [type |-> type, APPLE |-> apple, PlatformIsAppleIos |-> ios,
          FRAMEWORK |-> framework, MACOSX_BUNDLE |-> macosxBundle,
          BUNDLE |-> bundle, XCTEST |-> xctest]
  /\ macRet = NoBundleCall

MacBuildMacContentDirectory(contentOnly) ==
  /\ macRet' =
       [op |-> "BuildMacContentDirectory", contentOnly |-> contentOnly,
        fpath |-> BuildMacContentDirectory(macTarget, <<"/bin/">>,
                                           contentOnly)]
  /\ UNCHANGED macTarget
  /\ UNCHANGED macOthers

MacGetCFBundleDirectory(contentOnly) ==
  /\ macRet' =
       [op |-> "GetCFBundleDirectory", contentOnly |-> contentOnly,
        fpath |-> GetCFBundleDirectory(macTarget, contentOnly)]
  /\ UNCHANGED macTarget
  /\ UNCHANGED macOthers

MacNext ==
  \/ \E contentOnly \in BOOLEAN : MacBuildMacContentDirectory(contentOnly)
  \/ \E contentOnly \in BOOLEAN : MacGetCFBundleDirectory(contentOnly)

MacIdle ==
  /\ macTarget =
       [type |-> "STATIC_LIBRARY", APPLE |-> FALSE,
        PlatformIsAppleIos |-> FALSE, FRAMEWORK |-> FALSE,
        MACOSX_BUNDLE |-> FALSE, BUNDLE |-> FALSE, XCTEST |-> FALSE]
  /\ macRet = NoBundleCall

(* C39 *)
\* the packaging predicates that are true of the target
PackagingModes(t) ==
  {m \in {"Framework", "AppBundle", "CFBundle", "XCTest"} :
     CASE m = "Framework" -> IsFrameworkOnAppleOf(t)
       [] m = "AppBundle" -> IsAppBundleOnApple(t)
       [] m = "CFBundle" -> IsCFBundleOnApple(t)
       [] OTHER -> IsXCTestOnApple(t)}

\* the bundle directories that stand in the path BuildMacContentDirectory
\* built
DirectoriesIn(fpath) ==
  {fpath[i] : i \in DOMAIN fpath}
    \cap {".app", ".framework", "bundle", "xctest"}

\* C39 as stated: at most one of the four predicates is true
C39_AsStated == Cardinality(PackagingModes(macTarget)) <= 1

\* C39: at most one of IsFrameworkOnApple, IsAppBundleOnApple and
\* IsCFBundleOnApple is true; IsXCTestOnApple is true exactly of the
\* CFBundle targets with XCTEST set, so it is never true alone; and
\* BuildMacContentDirectory appends at most one bundle directory, the
\* xctest one exactly for an XCTest bundle
C39_XCTestIsACFBundle ==
  /\ Cardinality(PackagingModes(macTarget) \ {"XCTest"}) <= 1
  /\ "XCTest" \in PackagingModes(macTarget)
       <=> /\ macTarget.type = "MODULE_LIBRARY"
           /\ macTarget.APPLE /\ macTarget.BUNDLE /\ macTarget.XCTEST
  /\ "XCTest" \in PackagingModes(macTarget)
       => "CFBundle" \in PackagingModes(macTarget)
  /\ macRet.op = "BuildMacContentDirectory"
       => /\ Cardinality(DirectoriesIn(macRet.fpath)) <= 1
          /\ "xctest" \in DirectoriesIn(macRet.fpath)
               <=> /\ macTarget.type = "MODULE_LIBRARY"
                   /\ macTarget.APPLE /\ macTarget.BUNDLE
                   /\ macTarget.XCTEST

\* the content directory of an XCTest bundle was built: two predicates hold
C39_Witness ==
  /\ macRet.op = "BuildMacContentDirectory"
  /\ PackagingModes(macTarget) = {"CFBundle", "XCTest"}
  /\ macRet.fpath = <<"/bin/", "foo", ".", "xctest", "/Contents", "/MacOS">>

(* C40 *)
\* the last call computed or returned the link-implementation closure of a
\* target
ClosureReturned == lnkRet.op = "GetLinkImplementationClosure"

\* the targets of a closure
ClosureMembers(closure) == {closure[i] : i \in DOMAIN closure}

\* C40: the link-implementation closure of a target never contains the
\* target itself, also when the link graph has a cycle that leads back to
\* it
C40_ClosureWithoutSelf ==
  ClosureReturned => lnkRet.target \notin ClosureMembers(lnkRet.closure)

-----------------------------------------------------------------------------
(* The specifications: one per subsystem, the other variables idle.        *)

InitSources == SrcInit /\ ClsIdle /\ CmpIdle /\ OutIdle /\ LnkIdle /\ LngIdle /\ OptIdle /\ ChkIdle /\ NamIdle /\ TrcIdle /\ ObjIdle /\ ItmIdle /\ LilIdle /\ MacIdle

SpecSources == InitSources /\ [][SrcNext]_vars

InitClassify == ClsInit /\ SrcIdle /\ CmpIdle /\ OutIdle /\ LnkIdle /\ LngIdle /\ OptIdle /\ ChkIdle /\ NamIdle /\ TrcIdle /\ ObjIdle /\ ItmIdle /\ LilIdle /\ MacIdle

SpecClassify == InitClassify /\ [][ClsNext]_vars

InitCompat == CmpInit /\ SrcIdle /\ ClsIdle /\ OutIdle /\ LnkIdle /\ LngIdle /\ OptIdle /\ ChkIdle /\ NamIdle /\ TrcIdle /\ ObjIdle /\ ItmIdle /\ LilIdle /\ MacIdle

SpecCompat == InitCompat /\ [][CmpNext]_vars

InitOutputName == OutInit /\ SrcIdle /\ ClsIdle /\ CmpIdle /\ LnkIdle /\ LngIdle /\ OptIdle /\ ChkIdle /\ NamIdle /\ TrcIdle /\ ObjIdle /\ ItmIdle /\ LilIdle /\ MacIdle

\* an evaluation that has begun runs on: its steps are weakly fair
SpecOutputName ==
  /\ InitOutputName
  /\ [][OutNext]_vars
  /\ WF_vars(OutEvaluatePart \/ OutNestedCall \/ OutReturn)

InitLinks == LnkInit /\ SrcIdle /\ ClsIdle /\ CmpIdle /\ OutIdle /\ LngIdle /\ OptIdle /\ ChkIdle /\ NamIdle /\ TrcIdle /\ ObjIdle /\ ItmIdle /\ LilIdle /\ MacIdle

SpecLinks == InitLinks /\ [][LnkNext]_vars

InitLinker == LngInit /\ SrcIdle /\ ClsIdle /\ CmpIdle /\ OutIdle /\ LnkIdle /\ OptIdle /\ ChkIdle /\ NamIdle /\ TrcIdle /\ ObjIdle /\ ItmIdle /\ LilIdle /\ MacIdle

SpecLinker == InitLinker /\ [][LngNext]_vars

InitProperties ==
  OptInit /\ SrcIdle /\ ClsIdle /\ CmpIdle /\ OutIdle /\ LnkIdle /\ LngIdle /\ ChkIdle /\ NamIdle /\ TrcIdle /\ ObjIdle /\ ItmIdle /\ LilIdle /\ MacIdle

SpecProperties == InitProperties /\ [][OptNext]_vars

InitCheck ==
  ChkInit /\ SrcIdle /\ ClsIdle /\ CmpIdle /\ OutIdle /\ LnkIdle /\ LngIdle /\ OptIdle /\ NamIdle /\ TrcIdle /\ ObjIdle /\ ItmIdle /\ LilIdle /\ MacIdle

SpecCheck == InitCheck /\ [][ChkNext]_vars

InitNames ==
  NamInit /\ SrcIdle /\ ClsIdle /\ CmpIdle /\ OutIdle /\ LnkIdle /\ LngIdle /\ OptIdle /\ ChkIdle /\ TrcIdle /\ ObjIdle /\ ItmIdle /\ LilIdle /\ MacIdle

SpecNames == InitNames /\ [][NamNext]_vars

InitTrace ==
  TrcInit /\ SrcIdle /\ ClsIdle /\ CmpIdle /\ OutIdle /\ LnkIdle /\ LngIdle /\ OptIdle /\ ChkIdle /\ NamIdle /\ ObjIdle /\ ItmIdle /\ LilIdle /\ MacIdle

\* the tracer runs on until Trace has returned
SpecTrace == InitTrace /\ [][TrcNext]_vars /\ WF_vars(TrcNext)

InitObjects ==
  ObjInit /\ SrcIdle /\ ClsIdle /\ CmpIdle /\ OutIdle /\ LnkIdle /\ LngIdle /\ OptIdle /\ ChkIdle /\ NamIdle /\ TrcIdle /\ ItmIdle /\ LilIdle /\ MacIdle

SpecObjects == InitObjects /\ [][ObjNext]_vars

InitLinkItems ==
  ItmInit /\ SrcIdle /\ ClsIdle /\ CmpIdle /\ OutIdle /\ LnkIdle /\ LngIdle /\ OptIdle /\ ChkIdle /\ NamIdle /\ TrcIdle /\ ObjIdle /\ LilIdle /\ MacIdle

SpecLinkItems == InitLinkItems /\ [][ItmNext]_vars

InitImplementation ==
  LilInit /\ SrcInit /\ ClsIdle /\ CmpIdle /\ OutIdle /\ LnkIdle /\ LngIdle /\ OptIdle /\ ChkIdle /\ NamIdle /\ TrcIdle /\ ObjIdle /\ ItmIdle /\ MacIdle

SpecImplementation == InitImplementation /\ [][LilNext]_vars

InitBundles ==
  MacInit /\ SrcIdle /\ ClsIdle /\ CmpIdle /\ OutIdle /\ LnkIdle /\ LngIdle /\ OptIdle /\ ChkIdle /\ NamIdle /\ TrcIdle /\ ObjIdle /\ ItmIdle /\ LilIdle

SpecBundles == InitBundles /\ [][MacNext]_vars

====
